---- MODULE Spec2Model ----
(***************************************************************************)
(* Network transport and protocol layer of voxels03: the byte codec and    *)
(* message envelope (shared), the login handshake (client/netcode and      *)
(* server/netcode) and the server's game-loop side (server/src/server.rs). *)
(*                                                                         *)
(* Scalars wider than 16 bits are kept as tuples of 16-bit limbs, least    *)
(* significant first, so that every value of a u32/u64 field is exact.     *)
(***************************************************************************)
EXTENDS Integers, Sequences, FiniteSets, TLC

VARIABLES
    \* message framing: one payload, framed by a writer, parsed by both peers
    f_payload, f_writer, f_wire, f_srv, f_cli,
    \* server: one login task per accepted connection, and the main thread
    spc,              \* where each connection's task is
    conn_open,        \* the QUIC connection is open
    hello_recv,       \* handshake stream, peer -> server: [bytes, fin]
    hello_send,       \* handshake stream, server -> peer: [bytes, fin]
    buffer,           \* login's buffer
    username,         \* login's username
    id_channel,       \* the one-shot of each connection's LoginRequest
    nid,              \* the NetworkId login got from the main thread
    close_calls,      \* the codes passed to connection.close, in order
    joined_sent,      \* PlayerJoined messages the task has sent
    left_sent,        \* PlayerLeft messages the task has sent
    server_messages,  \* mpsc channel, net thread -> main thread
    stop,             \* NetServer.channels.stop: Option<oneshot::Sender<()>>
    \* server: the NetServer handle, its network thread and the chat drivers
    net_thread,       \* the server's network thread (NetServer.handle)
    stop_calls,       \* calls of NetServer::stop so far
    stop_fired,       \* sends on the stop one-shot so far
    incoming,         \* unbounded channel, chat drivers -> main thread
    polled,           \* the payloads NetServer::poll has returned, in order
    poll_result,      \* what the last NetServer::poll returned
    chat_recv,        \* chat stream of each connection, peer -> server
    chat_got,         \* the payloads each recv_driver got from receive_bytes
    drv,              \* where each connection's recv_driver is
    \* client: one connection attempt (Connecting) and its network thread
    cpc,              \* where net_main is
    c_username,       \* the username try_connect was given
    c_hello_send,     \* handshake stream, client -> server: the bytes written
    c_hello_recv,     \* handshake stream, server -> client: [bytes, fin]
    sent_reply,       \* the LoginResponse the server's login wrote, if it did
    on_connect,       \* one-shot net thread -> Connecting: [sent, taken, val]
    handle,           \* Connecting.handle: Option<(JoinHandle, Channels)>
    tick_result,      \* what the last Connecting::tick returned
    established,      \* how many times tick has returned Ok(Some(..))
    \* client: the established ServerConnection and the thread behind it
    c_conn,           \* the transport connection: none, open, lost, closed
    c_stop,           \* Channels.stop: Option<oneshot::Sender<()>>
    c_stop_calls,     \* calls of ServerConnection::stop so far
    c_stop_fired,     \* sends on the stop one-shot so far
    c_incoming,       \* bounded channel, net thread -> game loop
    c_polled,         \* the payloads ServerConnection::poll has returned
    c_poll_result,    \* what the last ServerConnection::poll returned
    c_chat,           \* bounded channel, game loop -> net thread
    c_chat_out,       \* the framed chat messages written to the peer
    c_shutdown,       \* what net_main has done since it saw the stop signal
    \* server: NetServer::start
    on_ready,         \* one-shot net thread -> start: None, Ok, Err, Dropped
    start_result,     \* what NetServer::start returned: none, blocked, Ok, Err
    game_loop,        \* the server's main thread: running, panicked
    \* the codecs on their own: values written by a writer, read by a reader
    x_pc,             \* idle, input, written, read
    x_in,             \* the values (or bytes) the codec is given
    x_w,              \* what the writer has produced
    x_out             \* what the reader has returned

fvars == << f_payload, f_writer, f_wire, f_srv, f_cli >>

svars == << spc, conn_open, hello_recv, hello_send, buffer, username, id_channel,
            nid, close_calls, joined_sent, left_sent, server_messages, stop >>

cvars == << cpc, c_username, c_hello_send, c_hello_recv, sent_reply, on_connect,
            handle, tick_result, established >>

hvars == << net_thread, stop_calls, stop_fired, incoming, polled, poll_result,
            chat_recv, chat_got, drv >>

kvars == << c_conn, c_stop, c_stop_calls, c_stop_fired, c_incoming, c_polled,
            c_poll_result, c_chat, c_chat_out, c_shutdown >>

bvars == << on_ready, start_result, game_loop >>

xvars == << x_pc, x_in, x_w, x_out >>

ovars == << bvars, xvars >>

vars == << fvars, svars, hvars, cvars, kvars, ovars >>

\* --------------------------------------------------------------------------
\* Bounds of the model
\* --------------------------------------------------------------------------
MaxPayloadLen == 2

NumConns == 2

MaxNameLen == 3

MaxStopCalls == 2

MaxChatMsgs == 3

MaxBitOps == 2

MaxBitReads == 4

MaxByteOps == 2

\* --------------------------------------------------------------------------
\* Program constants
\* --------------------------------------------------------------------------
U16Max == 65535

PROTOCOL_VERSION == 0

PROTOCOL_MAGIC == 47041

ServerMsgCapacity == 32

MinResponseLen == 30

MinRequestLen == 6

MinUsernameLen == 3

NetworkIdInvalid == 0

Varint1Max == 127

Varint15Limit == 32768

ResponseBufferLen == 32

ChatCapacity == 128

RequestBufferLen == 256

\* --------------------------------------------------------------------------
\* Integer helpers (fixed width)
\* --------------------------------------------------------------------------
AsU16(x) == x % 65536

SaturatingSub(a, b) == IF a >= b THEN a - b ELSE 0

\* u16::to_le_bytes
U16ToLe(x) == << x % 256, x \div 256 >>

\* u16::from_le_bytes
U16FromLe(b0, b1) == b0 + 256 * b1

\* u32::to_le_bytes on a value held as << low 16 bits, high 16 bits >>
U32ToLe(x) == U16ToLe(x[1]) \o U16ToLe(x[2])

U32FromLe(b) == << U16FromLe(b[1], b[2]), U16FromLe(b[3], b[4]) >>

\* u64::to_le_bytes on a value held as four 16-bit limbs
U64ToLe(x) == U16ToLe(x[1]) \o U16ToLe(x[2]) \o U16ToLe(x[3]) \o U16ToLe(x[4])

U64FromLe(b) ==
    << U16FromLe(b[1], b[2]), U16FromLe(b[3], b[4]),
       U16FromLe(b[5], b[6]), U16FromLe(b[7], b[8]) >>

Zeros(n) == [i \in 1..n |-> 0]

\* `as` between a signed integer and the unsigned one of its width.  An i8,
\* i16 or i32 is an integer; an i64 is << sign, magnitude limbs >>.
I8AsU8(x) == (x + 256) % 256

U8AsI8(b) == IF b >= 128 THEN b - 256 ELSE b

I16AsU16(x) == (x + 65536) % 65536

U16AsI16(w) == IF w >= 32768 THEN w - 65536 ELSE w

I32AsU32(x) ==
    LET lo == ((x % 65536) + 65536) % 65536
    IN  << lo, ((((x - lo) \div 65536) % 65536) + 65536) % 65536 >>

U32AsI32(l) == (IF l[2] >= 32768 THEN l[2] - 65536 ELSE l[2]) * 65536 + l[1]

\* two's complement of a number in 16-bit limbs
RECURSIVE LimbsPlusOne(_)
LimbsPlusOne(l) ==
    IF l = << >> THEN << >>
    ELSE IF l[1] < 65535 THEN << l[1] + 1 >> \o Tail(l)
    ELSE << 0 >> \o LimbsPlusOne(Tail(l))

TwosNeg(l) == LimbsPlusOne([i \in 1..Len(l) |-> 65535 - l[i]])

I64AsU64(x) == IF x[1] = 1 THEN TwosNeg(Tail(x)) ELSE Tail(x)

U64AsI64(l) == IF l[4] >= 32768 THEN << 1 >> \o TwosNeg(l) ELSE << 0 >> \o l

\* dst[at .. at+len(src)) = src  (0-based offset at)
CopyInto(dst, at, src) ==
    SubSeq(dst, 1, at) \o src \o SubSeq(dst, at + Len(src) + 1, Len(dst))

\* --------------------------------------------------------------------------
\* shared::serialization::ByteWriter
\* --------------------------------------------------------------------------
SerNewForMessage(dst) == [dst |-> dst, pos |-> 2]

SerSpaceRemaining(w) == Len(w.dst) - w.pos

SerWrite(w, src) ==
    [dst |-> CopyInto(w.dst, w.pos, src), pos |-> w.pos + Len(src)]

SerWriteMessageLen(w) ==
    LET len == SaturatingSub(AsU16(w.pos), 2)
    IN  [w EXCEPT !.dst = CopyInto(w.dst, 0, U16ToLe(len))]

SerBytes(w) == SubSeq(w.dst, 1, w.pos)

SerNew(dst) == [dst |-> dst, pos |-> 0]

SerBytesWritten(w) == w.pos

SerWriteU8(w, x) == SerWrite(w, << x >>)

SerWriteU16(w, x) == SerWrite(w, U16ToLe(x))

SerWriteU32(w, x) == SerWrite(w, U32ToLe(x))

SerWriteU64(w, x) == SerWrite(w, U64ToLe(x))

SerWriteI8(w, x) == SerWriteU8(w, I8AsU8(x))

SerWriteI16(w, x) == SerWriteU16(w, I16AsU16(x))

SerWriteI32(w, x) == SerWriteU32(w, I32AsU32(x))

SerWriteI64(w, x) == SerWriteU64(w, I64AsU64(x))

SerWriteBool(w, x) == SerWriteU8(w, IF x THEN 1 ELSE 0)

\* --------------------------------------------------------------------------
\* shared::bits_and_bytes::ByteWriter (pos is a u32; writes are unchecked)
\* --------------------------------------------------------------------------
BbNew(dst) == [dst |-> dst, pos |-> 0]

BbNewForMessage(dst) == [dst |-> dst, pos |-> 2]

BbWrite(w, src) ==
    [dst |-> CopyInto(w.dst, w.pos, src), pos |-> w.pos + Len(src)]

BbWriteU8(w, x) == BbWrite(w, << x >>)

BbWriteU16(w, x) == BbWrite(w, U16ToLe(x))

BbWriteU32(w, x) == BbWrite(w, U32ToLe(x))

BbWriteU64(w, x) == BbWrite(w, U64ToLe(x))

BbWriteF32(w, x) == BbWriteU32(w, x)

\* x.len() as u16, then the raw bytes
BbWriteStr(w, x) == BbWrite(BbWriteU16(w, AsU16(Len(x))), x)

\* (x & 127) | ((x & !127) << 1) | 128 in u16 arithmetic
Varint15Word(x) == (x % 128) + ((2 * (x - (x % 128))) % 65536) + 128

\* write right-aligned 15-bit varint: the writer after it, and the offset
BbWriteVarint15R(w, x) ==
    IF x > Varint1Max
    THEN [w |-> BbWriteU16(w, Varint15Word(x)), off |-> 0]
    ELSE [w |-> BbWriteU8(BbWriteU8(w, 7), x), off |-> 1]

\* write_varint15: one byte below 128, else the control-bit word
BbWriteVarint15Unshifted(w, x) ==
    IF x < 128 THEN BbWriteU8(w, x % 128)
    ELSE BbWriteU16(w, (x % 128) + (x - (x % 128)) + 128)

BbWriteVarint15(w, x) ==
    IF x < 128 THEN BbWriteU8(w, x % 128)
    ELSE BbWriteU16(w, Varint15Word(x))

BbWriteMessageLen(w) ==
    LET len == SaturatingSub(AsU16(w.pos), 2)
        r   == BbWriteVarint15R(BbNew(w.dst), len)
    IN  [dst |-> SubSeq(r.w.dst, r.off + 1, Len(r.w.dst)), pos |-> w.pos - r.off]

BbBytes(w) == SubSeq(w.dst, 1, w.pos)

\* --------------------------------------------------------------------------
\* receive_bytes, server and client.  A stream is [bytes, fin]: the bytes the
\* peer has written and whether it has finished the stream.  read_exact
\* waits ("block") while bytes are missing and the stream is still open.
\* --------------------------------------------------------------------------
Stream(bytes, fin) == [bytes |-> bytes, fin |-> fin]

NoResult == [st |-> "none", payload |-> << >>, consumed |-> 0]

Starved(s) == [st |-> IF s.fin THEN "err" ELSE "block", payload |-> << >>, consumed |-> 0]

\* server/netcode/src/util.rs
ServerReceiveBytes(s) ==
    IF Len(s.bytes) < 2 THEN Starved(s)
    ELSE LET length == U16FromLe(s.bytes[1], s.bytes[2])
         IN  IF Len(s.bytes) - 2 < length THEN Starved(s)
             ELSE [st |-> "ok", payload |-> SubSeq(s.bytes, 3, 2 + length),
                   consumed |-> 2 + length]

\* client/netcode/src/util.rs
ClientReceiveBytes(s) ==
    IF Len(s.bytes) < 2 THEN Starved(s)
    ELSE LET h0 == s.bytes[1]
             h1 == s.bytes[2]
             length == IF h0 > Varint1Max THEN h0 - 128 + h1 * 128 ELSE h0
         IN  IF length > Varint1Max
             THEN IF Len(s.bytes) - 2 < length THEN Starved(s)
                  ELSE [st |-> "ok", payload |-> SubSeq(s.bytes, 3, 2 + length),
                        consumed |-> 2 + length]
             \* buf[0] = header[1] on an empty Vec: index out of bounds
             ELSE IF length = 0 THEN [st |-> "panic", payload |-> << >>, consumed |-> 2]
             ELSE IF Len(s.bytes) - 2 < length - 1 THEN Starved(s)
             ELSE [st |-> "ok", payload |-> << h1 >> \o SubSeq(s.bytes, 3, 1 + length),
                   consumed |-> 1 + length]

\* --------------------------------------------------------------------------
\* shared::serialization::ByteReader, as login uses it
\* --------------------------------------------------------------------------
ByteReaderNew(src) == [src |-> src, pos |-> 0]

BytesRemaining(r) == Len(r.src) - r.pos

\* the value read and the reader after it
ReadU16(r) ==
    [val |-> U16FromLe(r.src[r.pos + 1], r.src[r.pos + 2]),
     r   |-> [r EXCEPT !.pos = r.pos + 2]]

ReadU8(r) ==
    [val |-> r.src[r.pos + 1], r |-> [r EXCEPT !.pos = r.pos + 1]]

ReadU32(r) ==
    [val |-> U32FromLe(SubSeq(r.src, r.pos + 1, r.pos + 4)), r |-> [r EXCEPT !.pos = r.pos + 4]]

ReadU64(r) ==
    [val |-> U64FromLe(SubSeq(r.src, r.pos + 1, r.pos + 8)), r |-> [r EXCEPT !.pos = r.pos + 8]]

ReadI8Unsigned(r) ==
    ReadU8(r)

\* read_i8: the byte, as i8
ReadI8(r) ==
    [ReadU8(r) EXCEPT !.val = U8AsI8(@)]

ReadI16(r) == [ReadU16(r) EXCEPT !.val = U16AsI16(@)]

ReadI32(r) == [ReadU32(r) EXCEPT !.val = U32AsI32(@)]

ReadI64(r) == [ReadU64(r) EXCEPT !.val = U64AsI64(@)]

ReadBool(r) == [ReadU8(r) EXCEPT !.val = (@ # 0)]

BytesRead(r) == r.pos

\* read_varint15: (b1 & 127) | (b2 << 7) when b1 has its top bit set
ReadVarint15(r) ==
    LET b1 == ReadU8(r)
    IN  IF b1.val >= 128
        THEN LET b2 == ReadU8(b1.r)
             IN  [val |-> (b1.val % 128) + 128 * b2.val, r |-> b2.r]
        ELSE b1

\* The names of the model are ASCII or the byte 255, which no UTF-8 text holds.
Utf8Valid(b) == \A i \in 1..Len(b) : b[i] < 128

\* read_str: the slice src[pos..pos+len] is bounds-checked (panic); the
\* UTF-8 check is from_utf8().unwrap() in a debug build and unchecked in a
\* release build.
ReadStrOutcomes(r0) ==
    LET l  == ReadU16(r0)
        r  == l.r
        hi == r.pos + l.val
    IN  IF hi > Len(r.src) THEN {[st |-> "panic", str |-> << >>]}
        ELSE LET str == SubSeq(r.src, r.pos + 1, hi)
             IN  IF Utf8Valid(str) THEN {[st |-> "ok", str |-> str]}
                 ELSE {[st |-> "ok", str |-> str], [st |-> "panic", str |-> << >>]}

\* --------------------------------------------------------------------------
\* shared::serialization::BitWriter and BitReader.  A u32 is a tuple of 32
\* bits and the u64 accumulator a tuple of 64, least significant first; an
\* i32 is an integer.
\* --------------------------------------------------------------------------
WordBits == 32

AccBits == 64

\* the low n bits of x >= 0, n <= 31
BitsOf(x, n) == [i \in 1..n |-> (x \div (2 ^ (i - 1))) % 2]

U32Bits(x) == BitsOf(x, 31) \o << 0 >>

AllOnes32 == [i \in 1..WordBits |-> 1]

\* value as u32
I32Bits(v) ==
    IF v >= 0 THEN BitsOf(v, 31) \o << 0 >>
    ELSE BitsOf((v + 2 ^ 30) + 2 ^ 30, 31) \o << 1 >>

RECURSIVE BitsVal(_)
BitsVal(b) == IF b = << >> THEN 0 ELSE b[1] + 2 * BitsVal(Tail(b))

\* x & !(!0 << n) for n < 32
LowBits(b, n) == [i \in 1..Len(b) |-> IF i <= n THEN b[i] ELSE 0]

RECURSIVE CarryInto(_, _, _)
CarryInto(a, b, i) ==
    IF i = 1 THEN 0 ELSE (a[i - 1] + b[i - 1] + CarryInto(a, b, i - 1)) \div 2

WrappingAdd32(a, b) == [i \in 1..WordBits |-> (a[i] + b[i] + CarryInto(a, b, i)) % 2]

\* 1 << k as u32
OneShl(k) == [i \in 1..WordBits |-> IF i = k + 1 THEN 1 ELSE 0]

\* u32::to_le_bytes
WordToLe(b) == [j \in 1..4 |-> BitsVal(SubSeq(b, 8 * j - 7, 8 * j))]

\* u32::from_le_bytes
WordFromLe(bytes) == [i \in 1..WordBits |-> (bytes[((i - 1) \div 8) + 1] \div (2 ^ ((i - 1) % 8))) % 2]

\* BitWriter::new over a buffer of len bytes: out is what has been written to
\* the front of the buffer, rest the bytes of it still ahead
BwNew(len) ==
    [current |-> [i \in 1..AccBits |-> 0], bit_pos |-> 0, out |-> << >>, rest |-> len,
     bits_written |-> 0, dropped |-> FALSE]

\* BitWriter::write: a word that does not fit is dropped (debug_assert)
BwWrite(w, val) ==
    IF w.rest >= 4
    THEN [w EXCEPT !.out = @ \o WordToLe(val), !.rest = @ - 4, !.bits_written = @ + WordBits]
    ELSE [w EXCEPT !.dropped = TRUE]

\* a writer that flushes only once more than a word is pending
BwUintLateFlush(w, value, num_bits) ==
    LET cur == [i \in 1..AccBits |->
                  IF i > w.bit_pos /\ i - w.bit_pos <= WordBits /\ value[i - w.bit_pos] = 1
                  THEN 1 ELSE w.current[i]]
        pos == w.bit_pos + num_bits
        w1  == [w EXCEPT !.current = cur, !.bit_pos = pos]
    IN  IF pos > WordBits
        THEN [BwWrite(w1, SubSeq(cur, 1, WordBits)) EXCEPT
                 !.current = [i \in 1..AccBits |-> IF i <= WordBits THEN cur[i + WordBits] ELSE 0],
                 !.bit_pos = pos - WordBits]
        ELSE w1

BwUint(w, value, num_bits) ==
    LET cur == [i \in 1..AccBits |->
                  IF i > w.bit_pos /\ i - w.bit_pos <= WordBits /\ value[i - w.bit_pos] = 1
                  THEN 1 ELSE w.current[i]]
        pos == w.bit_pos + num_bits
        w1  == [w EXCEPT !.current = cur, !.bit_pos = pos]
    IN  IF pos >= WordBits
        THEN [BwWrite(w1, SubSeq(cur, 1, WordBits)) EXCEPT
                 !.current = [i \in 1..AccBits |-> IF i <= WordBits THEN cur[i + WordBits] ELSE 0],
                 !.bit_pos = pos - WordBits]
        ELSE w1

\* BitWriter::int: (value as u32).wrapping_add(1 << (n - 1)) & !(!0 << n).
\* With n = 32 the shift !0 << 32 overflows: a build with overflow checks
\* panics, a build without them shifts by 0 and the mask is 0.
BwIntOutcomes(w, value, num_bits) ==
    LET biased == WrappingAdd32(I32Bits(value), OneShl(num_bits - 1))
    IN  IF num_bits < WordBits
        THEN {[st |-> "ok", w |-> BwUint(w, LowBits(biased, num_bits), num_bits)]}
        ELSE {[st |-> "panic", w |-> w],
              [st |-> "ok", w |-> BwUint(w, LowBits(biased, 0), num_bits)]}

BwBool(w, b) == BwUint(w, U32Bits(IF b THEN 1 ELSE 0), 1)

BwFlushPartialsWhole(w) ==
    IF w.bit_pos = 0 THEN w
    ELSE BwWrite(w, LowBits(SubSeq(w.current, 1, WordBits), w.bit_pos))

BwFlushPartials(w) ==
    IF w.bit_pos = 0 THEN w
    ELSE LET w1 == BwWrite(w, LowBits(SubSeq(w.current, 1, WordBits), w.bit_pos))
         IN  [w1 EXCEPT !.bits_written = @ - WordBits + w.bit_pos]

BwBitsWritten(w) == w.bits_written

BwComputeBytesWritten(w) == (w.bits_written + 7) \div 8

\* the caller's buffer after the writer is done with it
BwBuffer(w) == w.out \o Zeros(w.rest)

BrReadStale(r) ==
    LET left  == IF Len(r.buf) - r.buf_pos < 4 THEN Len(r.buf) - r.buf_pos ELSE 4
        bytes == SubSeq(r.buf, r.buf_pos + 1, r.buf_pos + left) \o [i \in 1..(4 - left) |-> 255]
    IN  [val |-> WordFromLe(bytes), r |-> [r EXCEPT !.buf_pos = @ + left]]

\* BitReader::read: the next four bytes, zero-filled past the end
BrRead(r) ==
    LET left  == IF Len(r.buf) - r.buf_pos < 4 THEN Len(r.buf) - r.buf_pos ELSE 4
        bytes == SubSeq(r.buf, r.buf_pos + 1, r.buf_pos + left) \o Zeros(4 - left)
    IN  [val |-> WordFromLe(bytes), r |-> [r EXCEPT !.buf_pos = @ + left]]

BrNew(buf) ==
    LET r0 == [current |-> [i \in 1..AccBits |-> 0], bits_left |-> AccBits, buf_pos |-> 0,
               buf |-> buf]
        lo == BrRead(r0)
        hi == BrRead(lo.r)
    IN  [hi.r EXCEPT !.current = lo.val \o hi.val]

BrUint(r, num_bits) ==
    LET result == LowBits(SubSeq(r.current, 1, WordBits), num_bits)
        left   == r.bits_left - num_bits
        cur    == [i \in 1..AccBits |-> IF i + num_bits <= AccBits THEN r.current[i + num_bits] ELSE 0]
    IN  IF left < WordBits
        THEN LET rd == BrRead(r)
             IN  [val |-> result,
                  r   |-> [rd.r EXCEPT
                             !.current = [i \in 1..AccBits |->
                                 IF i > left /\ i - left <= WordBits /\ rd.val[i - left] = 1
                                 THEN 1 ELSE cur[i]],
                             !.bits_left = left + WordBits]]
        ELSE [val |-> result, r |-> [r EXCEPT !.current = cur, !.bits_left = left]]

\* BitReader::int: (u as i64 - (1 << (n - 1))) as i32
BrInt(r, num_bits) ==
    LET u == BrUint(r, num_bits)
    IN  [val |-> BitsVal(SubSeq(u.val, 1, num_bits - 1))
                   + (IF u.val[num_bits] = 1 THEN 0
                      ELSE IF num_bits = 1 THEN -1
                      ELSE (-(2 ^ (num_bits - 2))) - 2 ^ (num_bits - 2)),
         r   |-> u.r]

BrBool(r) ==
    LET u == BrUint(r, 1)
    IN  [val |-> u.val[1] # 0, r |-> u.r]

\* --------------------------------------------------------------------------
\* Server: login_listener.rs
\* --------------------------------------------------------------------------
Conns == 1..NumConns

CloseInvalidRequest == 1

CloseUsernameTooShort == 2

CloseDenied == 2

Accepted(n, pos, rot, seed) ==
    [tag |-> "Accepted", nid |-> n, position |-> pos, head_rotation |-> rot,
     world_seed |-> seed, reason |-> << >>]

U32Zero == << 0, 0 >>

U64Zero == << 0, 0, 0, 0 >>

Denied(reason) ==
    [tag |-> "Denied", nid |-> 0, position |-> << U32Zero, U32Zero, U32Zero >>,
     head_rotation |-> << U32Zero, U32Zero >>, world_seed |-> U64Zero,
     reason |-> reason]

ChannelState(t) == [Denied(<< >>) EXCEPT !.tag = t]

\* what login does with a received request payload, up to the LoginRequest
LoginCheckHeaderOnly(payload) ==
    LET r0 == ByteReaderNew(payload)
    IN  IF BytesRemaining(r0) < MinRequestLen
        THEN {[st |-> "close", code |-> CloseInvalidRequest, at |-> "bail_invalid"]}
        ELSE LET m == ReadU16(r0)
                 v == ReadU16(m.r)
             IN  IF m.val # PROTOCOL_MAGIC \/ v.val # PROTOCOL_VERSION
                 THEN {[st |-> "close", code |-> CloseInvalidRequest, at |-> "bail_invalid"]}
                 ELSE ReadStrOutcomes(v.r)

LoginCheckMagicOnly(payload) ==
    LET r0 == ByteReaderNew(payload)
    IN  IF BytesRemaining(r0) < MinRequestLen
        THEN {[st |-> "close", code |-> CloseInvalidRequest, at |-> "bail_invalid"]}
        ELSE LET m == ReadU16(r0)
                 v == ReadU16(m.r)
             IN  IF m.val # PROTOCOL_MAGIC
                 THEN {[st |-> "close", code |-> CloseInvalidRequest, at |-> "bail_invalid"]}
                 ELSE {IF o.st = "ok" /\ Len(o.str) < MinUsernameLen
                       THEN [st |-> "close", code |-> CloseUsernameTooShort, at |-> "bail_short"]
                       ELSE o : o \in ReadStrOutcomes(v.r)}

LoginCheck(payload) ==
    LET r0 == ByteReaderNew(payload)
    IN  IF BytesRemaining(r0) < MinRequestLen
        THEN {[st |-> "close", code |-> CloseInvalidRequest, at |-> "bail_invalid"]}
        ELSE LET m == ReadU16(r0)
                 v == ReadU16(m.r)
             IN  IF m.val # PROTOCOL_MAGIC \/ v.val # PROTOCOL_VERSION
                 THEN {[st |-> "close", code |-> CloseInvalidRequest, at |-> "bail_invalid"]}
                 ELSE {IF o.st = "ok" /\ Len(o.str) < MinUsernameLen
                       THEN [st |-> "close", code |-> CloseUsernameTooShort, at |-> "bail_short"]
                       ELSE o : o \in ReadStrOutcomes(v.r)}

\* Vec::resize(n, 0)
Resize(v, n) == IF Len(v) >= n THEN SubSeq(v, 1, n) ELSE v \o Zeros(n - Len(v))

LoginResponseBytesSeedFirst(buf, r) ==
    LET w0 == BbNewForMessage(Resize(buf, ResponseBufferLen))
        w1 == BbWriteU64(w0, r.world_seed)
        w2 == BbWriteF32(w1, r.position[1])
        w3 == BbWriteF32(w2, r.position[2])
        w4 == BbWriteF32(w3, r.position[3])
        w5 == BbWriteF32(w4, r.head_rotation[1])
        w6 == BbWriteF32(w5, r.head_rotation[2])
        w7 == BbWriteU16(w6, r.nid)
    IN  BbBytes(BbWriteMessageLen(w7))

LoginResponseBytesWholeBuffer(buf, r) ==
    LET w0 == BbNewForMessage(Resize(buf, ResponseBufferLen))
        w1 == BbWriteU16(w0, r.nid)
        w2 == BbWriteF32(w1, r.position[1])
        w3 == BbWriteF32(w2, r.position[2])
        w4 == BbWriteF32(w3, r.position[3])
        w5 == BbWriteF32(w4, r.head_rotation[1])
        w6 == BbWriteF32(w5, r.head_rotation[2])
        w7 == BbWriteU64(w6, r.world_seed)
        len == SaturatingSub(AsU16(w7.pos), 2)
    IN  BbWriteVarint15R(BbNew(w7.dst), len).w.dst

\* the bytes login writes for LoginResponse::Accepted
LoginResponseBytes(buf, r) ==
    LET w0 == BbNewForMessage(Resize(buf, ResponseBufferLen))
        w1 == BbWriteU16(w0, r.nid)
        w2 == BbWriteF32(w1, r.position[1])
        w3 == BbWriteF32(w2, r.position[2])
        w4 == BbWriteF32(w3, r.position[3])
        w5 == BbWriteF32(w4, r.head_rotation[1])
        w6 == BbWriteF32(w5, r.head_rotation[2])
        w7 == BbWriteU64(w6, r.world_seed)
    IN  BbBytes(BbWriteMessageLen(w7))

NoStream == Stream(<< >>, FALSE)

\* Option<T> as poll returns it, and the value before the first call
PollUnset == [kind |-> "unset"]

PollNone == [kind |-> "None"]

PollSome(x) == [kind |-> "Some", val |-> x]

\* nothing polled, no stop call, no chat driver
HandleIdle ==
    /\ stop_calls = 0
    /\ stop_fired = 0
    /\ incoming = << >>
    /\ polled = << >>
    /\ poll_result = PollUnset
    /\ chat_recv = [c \in Conns |-> NoStream]
    /\ chat_got = [c \in Conns |-> << >>]
    /\ drv = [c \in Conns |-> "off"]

ServerIdle ==
    /\ spc = [c \in Conns |-> "off"]
    /\ conn_open = [c \in Conns |-> FALSE]
    /\ hello_recv = [c \in Conns |-> NoStream]
    /\ hello_send = [c \in Conns |-> NoStream]
    /\ buffer = [c \in Conns |-> << >>]
    /\ username = [c \in Conns |-> << >>]
    /\ id_channel = [c \in Conns |-> ChannelState("None")]
    /\ nid = [c \in Conns |-> 0]
    /\ close_calls = [c \in Conns |-> << >>]
    /\ joined_sent = [c \in Conns |-> 0]
    /\ left_sent = [c \in Conns |-> 0]
    /\ server_messages = << >>
    /\ stop = "None"
    /\ net_thread = "off"
    /\ on_ready = "None"
    /\ start_result = "none"
    /\ game_loop = "running"
    /\ HandleIdle

\* --------------------------------------------------------------------------
\* Client: login.rs, net_thread.rs, lib.rs
\* --------------------------------------------------------------------------
NoReply == ChannelState("None")

OneShot(sent, taken, val) == [sent |-> sent, taken |-> taken, val |-> val]

\* no connection, nothing queued, polled or stopped
ConnIdle ==
    /\ c_conn = "none"
    /\ c_stop_calls = 0
    /\ c_stop_fired = 0
    /\ c_incoming = << >>
    /\ c_polled = << >>
    /\ c_poll_result = PollUnset
    /\ c_chat = << >>
    /\ c_chat_out = << >>
    /\ c_shutdown = << >>

ClientIdle ==
    /\ cpc = "off"
    /\ c_username = << >>
    /\ c_hello_send = << >>
    /\ c_hello_recv = NoStream
    /\ sent_reply = NoReply
    /\ on_connect = OneShot("None", FALSE, NoReply)
    /\ handle = "None"
    /\ tick_result = "none"
    /\ established = 0
    /\ c_stop = "None"
    /\ ConnIdle

\* shared::bits_and_bytes::ByteReader, the reader the client's receive_bytes
\* returns: fixed-width little-endian reads, each advancing the cursor by
\* the width of its type; f32 is read as its IEEE-754 bit pattern.
BbByteReaderNew(src) == [src |-> src, pos |-> 0]

BbBytesRemaining(r) == Len(r.src) - r.pos

BbReadU16(r) ==
    [val |-> U16FromLe(r.src[r.pos + 1], r.src[r.pos + 2]),
     r   |-> [r EXCEPT !.pos = r.pos + 2]]

BbReadF32(r) ==
    [val |-> U32FromLe(SubSeq(r.src, r.pos + 1, r.pos + 4)),
     r   |-> [r EXCEPT !.pos = r.pos + 4]]

BbReadU64(r) ==
    [val |-> U64FromLe(SubSeq(r.src, r.pos + 1, r.pos + 8)),
     r   |-> [r EXCEPT !.pos = r.pos + 8]]

\* try_connect, from the received payload to its result
TryConnectDecode(payload) ==
    LET r0 == BbByteReaderNew(payload)
    IN  IF BbBytesRemaining(r0) < MinResponseLen THEN [st |-> "err", val |-> NoReply]
        ELSE LET n  == BbReadU16(r0)
                 x  == BbReadF32(n.r)
                 y  == BbReadF32(x.r)
                 z  == BbReadF32(y.r)
                 yw == BbReadF32(z.r)
                 pt == BbReadF32(yw.r)
                 sd == BbReadU64(pt.r)
             IN  [st |-> "ok",
                  val |-> Accepted(n.val, << x.val, y.val, z.val >>,
                                   << yw.val, pt.val >>, sd.val)]

\* --------------------------------------------------------------------------
\* Message framing: a payload is framed by one of the two writers (or the
\* stream is taken as raw bytes) and parsed by both receive_bytes.
\* --------------------------------------------------------------------------
ByteSamples == {0, 1, 2}

SeqsUpTo(S, n) == UNION {[1..k -> S] : k \in 0..n}

\* The framing variables hold byte strings run-length packed, as a sequence
\* of << byte, count >> runs (a 65535-byte payload is one run).
RECURSIVE Unpack(_)
Unpack(r) ==
    IF r = << >> THEN << >>
    ELSE [i \in 1..r[1][2] |-> r[1][1]] \o Unpack(Tail(r))

Pack(s) ==
    LET n      == Len(s)
        starts == {i \in 1..n : i = 1 \/ s[i] # s[i - 1]}
        k      == Cardinality(starts)
        Nth(j) == CHOOSE x \in starts : Cardinality({y \in starts : y < x}) = j - 1
    IN  [j \in 1..k |->
            << s[Nth(j)], (IF j = k THEN n + 1 ELSE Nth(j + 1)) - Nth(j) >>]

PackResult(r) == [r EXCEPT !.payload = Pack(r.payload)]

FillPayload(n) == [i \in 1..n |-> 7]

LongLens ==
    {Varint1Max, Varint1Max + 1, Varint15Limit - 1, Varint15Limit,
     U16Max - 2, U16Max - 1, U16Max}

Payloads == SeqsUpTo(ByteSamples, MaxPayloadLen) \cup {FillPayload(n) : n \in LongLens}

NoWire == [st |-> "none", bytes |-> << >>]

\* new_for_message(buf); write(payload); write_message_len(); bytes()
SerFrame(p) ==
    SerBytes(SerWriteMessageLen(SerWrite(SerNewForMessage(Zeros(Len(p) + 2)), p)))

BbFrame(p) ==
    BbBytes(BbWriteMessageLen(BbWrite(BbNewForMessage(Zeros(Len(p) + 2)), p)))

\* debug_assert!(x < 32768) in write_varint15_r: a debug build panics, a
\* release build writes the wrapped word
BbFrameOutcomes(p) ==
    IF SaturatingSub(AsU16(Len(p) + 2), 2) < Varint15Limit
    THEN {[st |-> "ok", bytes |-> Pack(BbFrame(p))]}
    ELSE {[st |-> "ok", bytes |-> Pack(BbFrame(p))], [st |-> "panic", bytes |-> << >>]}

\* no codec exercise is running
CodecIdle ==
    /\ x_pc = "idle"
    /\ x_in = << >>
    /\ x_w = << >>
    /\ x_out = << >>

FramingQuiet ==
    /\ f_payload = << >>
    /\ f_writer = "idle"
    /\ f_wire = NoWire
    /\ f_srv = NoResult
    /\ f_cli = NoResult

FramingIdle ==
    /\ FramingQuiet
    /\ CodecIdle

FramingInit ==
    /\ f_payload \in {Pack(p) : p \in Payloads}
    /\ f_writer = "none"
    /\ f_wire = NoWire
    /\ f_srv = NoResult
    /\ f_cli = NoResult
    /\ CodecIdle
    /\ ServerIdle
    /\ ClientIdle

FrameSer ==
    /\ f_writer = "none"
    /\ f_writer' = "ser"
    /\ f_wire' = [st |-> "ok", bytes |-> Pack(SerFrame(Unpack(f_payload)))]
    /\ UNCHANGED << f_payload, f_srv, f_cli, svars, hvars, cvars, kvars, ovars >>

FrameBb ==
    /\ f_writer = "none"
    /\ f_writer' = "bb"
    /\ f_wire' \in BbFrameOutcomes(Unpack(f_payload))
    /\ UNCHANGED << f_payload, f_srv, f_cli, svars, hvars, cvars, kvars, ovars >>

RawStream ==
    /\ f_writer = "none"
    /\ f_writer' = "raw"
    /\ f_wire' = [st |-> "ok", bytes |-> f_payload]
    /\ UNCHANGED << f_payload, f_srv, f_cli, svars, hvars, cvars, kvars, ovars >>

FramingServerReceive ==
    /\ f_wire.st = "ok"
    /\ f_srv.st = "none"
    /\ f_srv' = PackResult(ServerReceiveBytes(Stream(Unpack(f_wire.bytes), TRUE)))
    /\ UNCHANGED << f_payload, f_writer, f_wire, f_cli, svars, hvars, cvars, kvars, ovars >>

FramingClientReceive ==
    /\ f_wire.st = "ok"
    /\ f_cli.st = "none"
    /\ f_cli' = PackResult(ClientReceiveBytes(Stream(Unpack(f_wire.bytes), TRUE)))
    /\ UNCHANGED << f_payload, f_writer, f_wire, f_srv, svars, hvars, cvars, kvars, ovars >>

FramingNext ==
    \/ FrameSer
    \/ FrameBb
    \/ RawStream
    \/ FramingServerReceive
    \/ FramingClientReceive

SpecFraming == FramingInit /\ [][FramingNext]_vars

\* --------------------------------------------------------------------------
\* Server: what a connecting peer can put on the handshake stream
\* --------------------------------------------------------------------------
Name(n) == [i \in 1..n |-> 97]

NotUtf8Name == << 255, 255, 255 >>

RequestPayload(magic, version, declared, name) ==
    U16ToLe(magic) \o U16ToLe(version) \o U16ToLe(declared) \o name

\* login::try_connect's request: new_for_message, magic, version, username,
\* write_message_len, bytes
ClientRequestBytes(name) ==
    LET w0 == BbNewForMessage(Zeros(RequestBufferLen))
        w1 == BbWriteU16(w0, PROTOCOL_MAGIC)
        w2 == BbWriteU16(w1, PROTOCOL_VERSION)
        w3 == BbWriteStr(w2, name)
    IN  BbBytes(BbWriteMessageLen(w3))

GoodRequests ==
    {Stream(SerFrame(RequestPayload(PROTOCOL_MAGIC, PROTOCOL_VERSION, n, Name(n))), FALSE) :
        n \in {MinUsernameLen - 1, MaxNameLen}}

BadRequests ==
    { Stream(SerFrame(RequestPayload(PROTOCOL_MAGIC + 1, PROTOCOL_VERSION, 3, Name(3))), FALSE),
      Stream(SerFrame(RequestPayload(PROTOCOL_MAGIC, PROTOCOL_VERSION + 1, 3, Name(3))), FALSE),
      Stream(SerFrame(U16ToLe(PROTOCOL_MAGIC) \o U16ToLe(PROTOCOL_VERSION) \o << 0 >>), FALSE),
      Stream(SerFrame(RequestPayload(PROTOCOL_MAGIC, PROTOCOL_VERSION, 9, Name(2))), FALSE),
      Stream(SerFrame(RequestPayload(PROTOCOL_MAGIC, PROTOCOL_VERSION, 3, NotUtf8Name)), FALSE),
      Stream(<< 5, 0 >>, TRUE),
      Stream(ClientRequestBytes(Name(3)), FALSE) }

PeerRequests == GoodRequests \cup BadRequests

Terminal == {"bail_invalid", "bail_short", "bail_denied", "err", "panicked", "done"}

LoginRequestMsg(c) == [kind |-> "LoginRequest", conn |-> c, nid |-> 0]

PlayerJoinedMsg(c) == [kind |-> "PlayerJoined", conn |-> c, nid |-> nid[c]]

PlayerLeftMsg(c) == [kind |-> "PlayerLeft", conn |-> c, nid |-> nid[c]]

\* a login whose end takes the endpoint, and every connection on it, along
TaskEndsClosesEndpoint(c, pc) ==
    /\ spc' = [spc EXCEPT ![c] = pc]
    /\ conn_open' = [d \in Conns |-> FALSE]
    /\ buffer' = [buffer EXCEPT ![c] = << >>]
    /\ username' = [username EXCEPT ![c] = << >>]

\* the task is over: its locals are dropped, and with them the connection
TaskEnds(c, pc) ==
    /\ spc' = [spc EXCEPT ![c] = pc]
    /\ conn_open' = [conn_open EXCEPT ![c] = FALSE]
    /\ buffer' = [buffer EXCEPT ![c] = << >>]
    /\ username' = [username EXCEPT ![c] = << >>]

ServerStart ==
    /\ spc = [c \in Conns |-> "idle"]
    /\ conn_open = [c \in Conns |-> FALSE]
    /\ hello_recv = [c \in Conns |-> NoStream]
    /\ hello_send = [c \in Conns |-> NoStream]
    /\ buffer = [c \in Conns |-> << >>]
    /\ username = [c \in Conns |-> << >>]
    /\ id_channel = [c \in Conns |-> ChannelState("None")]
    /\ nid = [c \in Conns |-> 0]
    /\ close_calls = [c \in Conns |-> << >>]
    /\ joined_sent = [c \in Conns |-> 0]
    /\ left_sent = [c \in Conns |-> 0]
    /\ server_messages = << >>
    /\ stop = "Some"
    /\ net_thread = "accepting"
    /\ on_ready = "Ok"
    /\ start_result = "Ok"
    /\ game_loop = "running"
    /\ HandleIdle

ServerInit ==
    /\ ServerStart
    /\ FramingIdle
    /\ ClientIdle

\* poll_new_connections accepts a connection and spawns login, which accepts
\* the bidirectional stream the peer opened; the peer has written its request
PeerConnect(c) ==
    /\ net_thread = "accepting"
    /\ spc[c] = "idle"
    /\ \E req \in PeerRequests : hello_recv' = [hello_recv EXCEPT ![c] = req]
    /\ spc' = [spc EXCEPT ![c] = "receive"]
    /\ conn_open' = [conn_open EXCEPT ![c] = TRUE]
    /\ UNCHANGED << hello_send, buffer, username, id_channel, nid, close_calls,
                    joined_sent, left_sent, server_messages, stop, fvars, hvars, cvars, kvars, ovars >>

\* the peer closes the connection, or the transport fails, while the task
\* is suspended
PeerClose(c) ==
    /\ conn_open[c]
    /\ spc[c] \notin Terminal
    /\ spc[c] = "receive" => ServerReceiveBytes(hello_recv[c]).st = "block"
    /\ conn_open' = [conn_open EXCEPT ![c] = FALSE]
    /\ UNCHANGED << spc, hello_recv, hello_send, buffer, username, id_channel, nid,
                    close_calls, joined_sent, left_sent, server_messages, stop, fvars, hvars, cvars, kvars, ovars >>

\* login, from receive_bytes to the LoginRequest sent to the main thread
LoginReceive(c) ==
    /\ spc[c] = "receive"
    /\ LET got == IF conn_open[c] THEN ServerReceiveBytes(hello_recv[c])
                  ELSE [NoResult EXCEPT !.st = "err"]
       IN  /\ got.st # "block"
           /\ hello_recv' = [hello_recv EXCEPT ![c] =
                 Stream(SubSeq(@.bytes, got.consumed + 1, Len(@.bytes)), @.fin)]
           /\ IF got.st = "err"
              THEN /\ TaskEnds(c, "err")
                   /\ UNCHANGED << id_channel, close_calls, server_messages >>
              ELSE \E o \in LoginCheck(got.payload) :
                     CASE o.st = "close" ->
                            /\ close_calls' = [close_calls EXCEPT ![c] = Append(@, o.code)]
                            /\ TaskEnds(c, o.at)
                            /\ UNCHANGED << id_channel, server_messages >>
                       [] o.st = "panic" ->
                            /\ TaskEnds(c, "panicked")
                            /\ UNCHANGED << id_channel, close_calls, server_messages >>
                       [] o.st = "ok" ->
                            /\ Len(server_messages) < ServerMsgCapacity
                            /\ server_messages' = Append(server_messages, LoginRequestMsg(c))
                            /\ id_channel' = [id_channel EXCEPT ![c] = ChannelState("Pending")]
                            /\ spc' = [spc EXCEPT ![c] = "await_id"]
                            /\ buffer' = [buffer EXCEPT ![c] = got.payload]
                            /\ username' = [username EXCEPT ![c] = o.str]
                            /\ UNCHANGED << conn_open, close_calls >>
    /\ UNCHANGED << hello_send, nid, joined_sent, left_sent, stop, fvars, hvars, cvars, kvars, ovars >>

LoginRespondDeniedWritten(c) ==
    /\ spc[c] = "await_id"
    /\ id_channel[c].tag \in {"Accepted", "Denied", "Dropped"}
    /\ id_channel' = [id_channel EXCEPT ![c] = ChannelState("Taken")]
    /\ CASE id_channel[c].tag \in {"Accepted", "Denied"} /\ conn_open[c] ->
              /\ hello_send' = [hello_send EXCEPT ![c] =
                    Stream(LoginResponseBytes(buffer[c],
                              [id_channel[c] EXCEPT !.tag = "Accepted"]), FALSE)]
              /\ nid' = [nid EXCEPT ![c] = id_channel[c].nid]
              /\ spc' = [spc EXCEPT ![c] = "finish"]
              /\ buffer' = [buffer EXCEPT ![c] = << >>]
              /\ UNCHANGED << conn_open, username, close_calls >>
         [] id_channel[c].tag \in {"Accepted", "Denied"} /\ ~conn_open[c] ->
              /\ TaskEnds(c, "err")
              /\ UNCHANGED << hello_send, nid, close_calls >>
         [] id_channel[c].tag = "Dropped" ->
              /\ TaskEnds(c, "err")
              /\ UNCHANGED << hello_send, nid, close_calls >>
    /\ UNCHANGED << hello_recv, joined_sent, left_sent, server_messages, stop, fvars, hvars, cvars, kvars, ovars >>

\* login, from the main thread's reply to the response written
LoginRespond(c) ==
    /\ spc[c] = "await_id"
    /\ id_channel[c].tag \in {"Accepted", "Denied", "Dropped"}
    /\ id_channel' = [id_channel EXCEPT ![c] = ChannelState("Taken")]
    /\ CASE id_channel[c].tag = "Accepted" /\ conn_open[c] ->
              /\ hello_send' = [hello_send EXCEPT ![c] =
                    Stream(LoginResponseBytes(buffer[c], id_channel[c]), FALSE)]
              /\ nid' = [nid EXCEPT ![c] = id_channel[c].nid]
              /\ spc' = [spc EXCEPT ![c] = "finish"]
              /\ buffer' = [buffer EXCEPT ![c] = << >>]
              /\ UNCHANGED << conn_open, username, close_calls >>
         [] id_channel[c].tag = "Accepted" /\ ~conn_open[c] ->
              /\ TaskEnds(c, "err")
              /\ UNCHANGED << hello_send, nid, close_calls >>
         [] id_channel[c].tag = "Denied" ->
              /\ close_calls' = [close_calls EXCEPT ![c] = Append(@, CloseDenied)]
              /\ TaskEnds(c, "bail_denied")
              /\ UNCHANGED << hello_send, nid >>
         [] id_channel[c].tag = "Dropped" ->
              /\ TaskEnds(c, "err")
              /\ UNCHANGED << hello_send, nid, close_calls >>
    /\ UNCHANGED << hello_recv, joined_sent, left_sent, server_messages, stop, fvars, hvars, cvars, kvars, ovars >>

\* hello_send.finish().await?
LoginFinish(c) ==
    /\ spc[c] = "finish"
    /\ IF conn_open[c]
       THEN /\ hello_send' = [hello_send EXCEPT ![c].fin = TRUE]
            /\ spc' = [spc EXCEPT ![c] = "client_connection"]
            /\ UNCHANGED << conn_open, buffer, username >>
       ELSE /\ TaskEnds(c, "err")
            /\ UNCHANGED hello_send
    /\ UNCHANGED << hello_recv, id_channel, nid, close_calls, joined_sent, left_sent,
                    server_messages, stop, fvars, hvars, cvars, kvars, ovars >>

\* client_connection: send PlayerJoined
SendPlayerJoined(c) ==
    /\ spc[c] = "client_connection"
    /\ Len(server_messages) < ServerMsgCapacity
    /\ server_messages' = Append(server_messages, PlayerJoinedMsg(c))
    /\ joined_sent' = [joined_sent EXCEPT ![c] = @ + 1]
    /\ spc' = [spc EXCEPT ![c] = "joined"]
    /\ UNCHANGED << conn_open, hello_recv, hello_send, buffer, username, id_channel, nid,
                    close_calls, left_sent, stop, fvars, hvars, cvars, kvars, ovars >>

SendPlayerLeftNever(c) ==
    /\ spc[c] = "joined"
    /\ TaskEnds(c, "done")
    /\ UNCHANGED << hello_recv, hello_send, id_channel, nid, close_calls, joined_sent,
                    left_sent, server_messages, stop, fvars, hvars, cvars, kvars, ovars >>

\* client_connection: send PlayerLeft, and return
SendPlayerLeft(c) ==
    /\ spc[c] = "joined"
    /\ Len(server_messages) < ServerMsgCapacity
    /\ server_messages' = Append(server_messages, PlayerLeftMsg(c))
    /\ left_sent' = [left_sent EXCEPT ![c] = @ + 1]
    /\ TaskEnds(c, "done")
    /\ UNCHANGED << hello_recv, hello_send, id_channel, nid, close_calls, joined_sent,
                    stop, fvars, hvars, cvars, kvars, ovars >>

\* NetServer::start has returned Ok(NetServer): the game loop holds the handle
HasServer == start_result = "Ok"

\* net_main: setup::make_server_endpoint, which binds the endpoint, fails, or
\* panics in one of configure_server's unwraps
NetMakeEndpoint ==
    /\ net_thread = "spawned"
    /\ net_thread' \in {"bound", "bind_failed", "panicked"}
    /\ on_ready' = IF net_thread' = "panicked" THEN "Dropped" ELSE on_ready
    /\ UNCHANGED << svars, stop_calls, stop_fired, incoming, polled, poll_result,
                    chat_recv, chat_got, drv, start_result, game_loop, fvars, cvars, kvars,
                    xvars >>

\* net_main: on_ready.send, then poll_new_connections or return
NetSignalReady ==
    /\ net_thread \in {"bound", "bind_failed"}
    /\ on_ready' = IF net_thread = "bound" THEN "Ok" ELSE "Err"
    /\ net_thread' = IF net_thread = "bound" THEN "accepting" ELSE "finished"
    /\ UNCHANGED << svars, stop_calls, stop_fired, incoming, polled, poll_result,
                    chat_recv, chat_got, drv, start_result, game_loop, fvars, cvars, kvars,
                    xvars >>

\* NetServer::start: on_ready_recv.blocking_recv()?.map_err(..)?, then Ok
StartReturnEarly ==
    /\ start_result = "blocked"
    /\ start_result' = IF on_ready \in {"Err", "Dropped"} THEN "Err" ELSE "Ok"
    /\ UNCHANGED << svars, hvars, on_ready, game_loop, fvars, cvars, kvars, xvars >>

StartReturn ==
    /\ start_result = "blocked"
    /\ on_ready # "None"
    /\ start_result' = IF on_ready = "Ok" THEN "Ok" ELSE "Err"
    /\ UNCHANGED << svars, hvars, on_ready, game_loop, fvars, cvars, kvars, xvars >>

\* NetServer::stop
NetServerStopResends ==
    /\ HasServer
    /\ stop_calls < MaxStopCalls
    /\ stop_calls' = stop_calls + 1
    /\ stop' = "Sent"
    /\ stop_fired' = stop_fired + 1
    /\ UNCHANGED << spc, conn_open, hello_recv, hello_send, buffer, username, id_channel,
                    nid, close_calls, joined_sent, left_sent, server_messages,
                    net_thread, incoming, polled, poll_result, chat_recv, chat_got, drv,
                    fvars, cvars, kvars, ovars >>

NetServerStop ==
    /\ HasServer
    /\ stop_calls < MaxStopCalls
    /\ stop_calls' = stop_calls + 1
    /\ IF stop = "Some"
       THEN stop' = "Sent" /\ stop_fired' = stop_fired + 1
       ELSE UNCHANGED << stop, stop_fired >>
    /\ UNCHANGED << spc, conn_open, hello_recv, hello_send, buffer, username, id_channel,
                    nid, close_calls, joined_sent, left_sent, server_messages,
                    net_thread, incoming, polled, poll_result, chat_recv, chat_got, drv,
                    fvars, cvars, kvars, ovars >>

\* NetServer::poll
NetServerPollPeeks ==
    /\ HasServer
    /\ IF Len(incoming) > 0
       THEN /\ poll_result' = PollSome(Head(incoming))
            /\ polled' = Append(polled, Head(incoming))
            /\ UNCHANGED incoming
       ELSE /\ poll_result' = PollNone
            /\ UNCHANGED << incoming, polled >>
    /\ UNCHANGED << svars, net_thread, stop_calls, stop_fired, chat_recv, chat_got, drv,
                    fvars, cvars, kvars, ovars >>

NetServerPollBlocking ==
    /\ HasServer
    /\ Len(incoming) > 0
    /\ poll_result' = PollSome(Head(incoming))
    /\ polled' = Append(polled, Head(incoming))
    /\ incoming' = Tail(incoming)
    /\ UNCHANGED << svars, net_thread, stop_calls, stop_fired, chat_recv, chat_got, drv,
                    fvars, cvars, kvars, ovars >>

NetServerPoll ==
    /\ HasServer
    /\ IF Len(incoming) > 0
       THEN /\ poll_result' = PollSome(Head(incoming))
            /\ polled' = Append(polled, Head(incoming))
            /\ incoming' = Tail(incoming)
       ELSE /\ poll_result' = PollNone
            /\ UNCHANGED << incoming, polled >>
    /\ UNCHANGED << svars, net_thread, stop_calls, stop_fired, chat_recv, chat_got, drv,
                    fvars, cvars, kvars, ovars >>

\* --------------------------------------------------------------------------
\* Server main thread: server/src/server.rs
\* --------------------------------------------------------------------------
ServerReply == Accepted(0, << U32Zero, U32Zero, U32Zero >>, << U32Zero, U32Zero >>, U64Zero)

\* process_net_messages with the LoginRequest arm dropping the message
ProcessNetMessagesNoReply ==
    /\ HasServer
    /\ game_loop = "running"
    /\ net_thread = "accepting"
    /\ Len(server_messages) > 0
    /\ id_channel' = [c \in Conns |->
          IF \E i \in 1..Len(server_messages) :
                server_messages[i] = LoginRequestMsg(c)
          THEN ChannelState("Dropped") ELSE id_channel[c]]
    /\ server_messages' = << >>
    /\ UNCHANGED << spc, conn_open, hello_recv, hello_send, buffer, username, nid,
                    close_calls, joined_sent, left_sent, stop, hvars, fvars, cvars, kvars,
                    ovars >>

\* InMsg::decode: stream[0] is bounds-checked, any tag but CHAT reaches
\* unreachable!(), and read_str runs on a reader still at the tag byte; a
\* payload of one byte makes read_u16 read past its end
InMsgChat == 1

InMsgDecodeOutcomes(stream) ==
    IF Len(stream) = 0 THEN {"panic"}
    ELSE IF stream[1] # InMsgChat THEN {"panic"}
    ELSE IF Len(stream) < 2 THEN {"panic", "ok"}
    ELSE {o.st : o \in ReadStrOutcomes(ByteReaderNew(stream))}

\* the first k queued payloads decode and the next one, if any, panics
DecodesThrough(k) ==
    /\ \A i \in 1..k : "ok" \in InMsgDecodeOutcomes(incoming[i].bytes)
    /\ k < Len(incoming) => "panic" \in InMsgDecodeOutcomes(incoming[k + 1].bytes)

\* Server::process_net_messages: drain server_messages, answering every
\* LoginRequest, then poll and decode until the inbound queue is empty
ProcessNetMessages ==
    /\ HasServer
    /\ game_loop = "running"
    /\ net_thread = "accepting"
    /\ Len(server_messages) > 0 \/ Len(incoming) > 0
    /\ id_channel' = [c \in Conns |->
          IF \E i \in 1..Len(server_messages) :
                server_messages[i] = LoginRequestMsg(c)
          THEN ServerReply ELSE id_channel[c]]
    /\ server_messages' = << >>
    /\ \E k \in 0..Len(incoming) :
          /\ DecodesThrough(k)
          /\ IF k = Len(incoming)
             THEN /\ polled' = polled \o incoming
                  /\ incoming' = << >>
                  /\ poll_result' = PollNone
                  /\ game_loop' = "running"
             ELSE /\ polled' = polled \o SubSeq(incoming, 1, k + 1)
                  /\ incoming' = SubSeq(incoming, k + 2, Len(incoming))
                  /\ poll_result' = PollSome(incoming[k + 1])
                  /\ game_loop' = "panicked"
    /\ UNCHANGED << spc, conn_open, hello_recv, hello_send, buffer, username, nid,
                    close_calls, joined_sent, left_sent, stop, net_thread, stop_calls,
                    stop_fired, chat_recv, chat_got, drv, on_ready, start_result,
                    fvars, cvars, kvars, xvars >>

ServerNext ==
    \/ \E c \in Conns : PeerConnect(c)
    \/ \E c \in Conns : PeerClose(c)
    \/ \E c \in Conns : LoginReceive(c)
    \/ \E c \in Conns : LoginRespond(c)
    \/ \E c \in Conns : LoginFinish(c)
    \/ \E c \in Conns : SendPlayerJoined(c)
    \/ \E c \in Conns : SendPlayerLeft(c)
    \/ NetServerStop
    \/ ProcessNetMessages

Spec == ServerInit /\ [][ServerNext]_vars

\* NetServer::start from its call: the thread is spawned and start waits for
\* the ready signal
StartInit ==
    /\ spc = [c \in Conns |-> "idle"]
    /\ conn_open = [c \in Conns |-> FALSE]
    /\ hello_recv = [c \in Conns |-> NoStream]
    /\ hello_send = [c \in Conns |-> NoStream]
    /\ buffer = [c \in Conns |-> << >>]
    /\ username = [c \in Conns |-> << >>]
    /\ id_channel = [c \in Conns |-> ChannelState("None")]
    /\ nid = [c \in Conns |-> 0]
    /\ close_calls = [c \in Conns |-> << >>]
    /\ joined_sent = [c \in Conns |-> 0]
    /\ left_sent = [c \in Conns |-> 0]
    /\ server_messages = << >>
    /\ stop = "Some"
    /\ net_thread = "spawned"
    /\ on_ready = "None"
    /\ start_result = "blocked"
    /\ game_loop = "running"
    /\ HandleIdle
    /\ FramingIdle
    /\ ClientIdle

StartNext ==
    \/ NetMakeEndpoint
    \/ NetSignalReady
    \/ StartReturn
    \/ ServerNext

SpecStart == StartInit /\ [][StartNext]_vars

\* the server's network thread and game loop keep running: whatever step the
\* server can take is eventually taken
SpecServerFair == Spec /\ WF_vars(ServerNext)

\* --------------------------------------------------------------------------
\* The netcode crate under any game loop: NetServer::channels() hands out
\* server_messages, and the game loop answers a LoginRequest with any
\* LoginResponse, or drops its id_channel
\* --------------------------------------------------------------------------
F32_64 == << 0, 17024 >>

SpecReply ==
    Accepted(7, << U32Zero, F32_64, U32Zero >>, << U32Zero, U32Zero >>, << 42, 0, 0, 0 >>)

DeniedReply == Denied(<< 102, 117, 108, 108 >>)

Replies == {SpecReply, DeniedReply, ChannelState("Dropped")}

GameLoopRecv ==
    /\ Len(server_messages) > 0
    /\ server_messages' = Tail(server_messages)
    /\ IF Head(server_messages).kind = "LoginRequest"
       THEN \E r \in Replies :
               id_channel' = [id_channel EXCEPT ![Head(server_messages).conn] = r]
       ELSE UNCHANGED id_channel
    /\ UNCHANGED << spc, conn_open, hello_recv, hello_send, buffer, username, nid,
                    close_calls, joined_sent, left_sent, stop, fvars, hvars, cvars, kvars, ovars >>

LibNext ==
    \/ \E c \in Conns : PeerConnect(c)
    \/ \E c \in Conns : PeerClose(c)
    \/ \E c \in Conns : LoginReceive(c)
    \/ \E c \in Conns : LoginRespond(c)
    \/ \E c \in Conns : LoginFinish(c)
    \/ \E c \in Conns : SendPlayerJoined(c)
    \/ \E c \in Conns : SendPlayerLeft(c)
    \/ NetServerStop
    \/ GameLoopRecv

SpecLib == ServerInit /\ [][LibNext]_vars

\* --------------------------------------------------------------------------
\* Client: one connection attempt against the repository's server (the
\* response login writes) or against any other server (any response bytes)
\* --------------------------------------------------------------------------
ClientNames == {Name(MinUsernameLen - 1), Name(MaxNameLen)}

DistinctReply ==
    Accepted(513, << << 1027, 1541 >>, << 2055, 2569 >>, << 3083, 3597 >> >>,
             << << 4111, 4625 >>, << 5139, 5653 >> >>, << 6167, 6681, 7195, 7709 >>)

MaxReply ==
    Accepted(U16Max, << << U16Max, U16Max >>, << U16Max, U16Max >>, << U16Max, U16Max >> >>,
             << << U16Max, U16Max >>, << U16Max, U16Max >> >>,
             << U16Max, U16Max, U16Max, U16Max >>)

AcceptedReplies == {ServerReply, SpecReply, DistinctReply, MaxReply}

ShortLens == {0, 1, MinResponseLen - 1}

ForeignResponses ==
    {Stream(BbFrame(FillPayload(n)), TRUE) : n \in ShortLens}
        \cup {Stream(SerFrame(FillPayload(n)), TRUE) : n \in ShortLens}
        \cup {Stream(SubSeq(BbFrame(FillPayload(MinResponseLen)), 1, MinResponseLen), TRUE),
              Stream(BbFrame(FillPayload(MinResponseLen + 1)), FALSE)}

ClientStart ==
    /\ cpc = "connect"
    /\ c_username \in ClientNames
    /\ c_hello_send = << >>
    /\ c_hello_recv = NoStream
    /\ sent_reply = NoReply
    /\ on_connect = OneShot("None", FALSE, NoReply)
    /\ handle = "Some"
    /\ tick_result = "none"
    /\ established = 0
    /\ c_stop = "Some"
    /\ ConnIdle

ClientInit ==
    /\ ClientStart
    /\ FramingIdle
    /\ ServerIdle

\* try_connect: connect, write the framed request on a new bidirectional stream
ClientSendRequest ==
    /\ cpc = "connect"
    /\ c_hello_send' = ClientRequestBytes(c_username)
    /\ cpc' = "await_response"
    /\ c_conn' = "open"
    /\ UNCHANGED << c_username, c_hello_recv, sent_reply, on_connect, handle,
                    tick_result, established, fvars, svars, hvars, ovars,
                    c_stop, c_stop_calls, c_stop_fired, c_incoming, c_polled,
                    c_poll_result, c_chat, c_chat_out, c_shutdown >>

\* try_connect fails before the request is written; net_main sends Err
ClientConnectFails ==
    /\ cpc = "connect"
    /\ on_connect' = OneShot("Err", FALSE, NoReply)
    /\ cpc' = "returned"
    /\ UNCHANGED << c_username, c_hello_send, c_hello_recv, sent_reply, handle,
                    tick_result, established, fvars, svars, hvars, kvars, ovars >>

\* the server's login got Accepted from its main thread, wrote the response
\* and finished the stream
ServerWritesResponse ==
    /\ cpc = "await_response"
    /\ c_hello_recv = NoStream
    /\ \E r \in AcceptedReplies :
          /\ sent_reply' = r
          /\ c_hello_recv' = Stream(LoginResponseBytes(c_hello_send, r), TRUE)
    /\ UNCHANGED << cpc, c_username, c_hello_send, on_connect, handle, tick_result,
                    established, fvars, svars, hvars, kvars, ovars >>

\* another server: any bytes on the handshake stream
ForeignServerWrites ==
    /\ cpc = "await_response"
    /\ c_hello_recv = NoStream
    /\ c_hello_recv' \in ForeignResponses
    /\ UNCHANGED << cpc, c_username, c_hello_send, sent_reply, on_connect, handle,
                    tick_result, established, fvars, svars, hvars, kvars, ovars >>

\* a network thread whose panic leaves the result sender alive and unused
ClientReceiveKeepsSender ==
    /\ cpc = "await_response"
    /\ c_hello_recv # NoStream
    /\ LET got == ClientReceiveBytes(c_hello_recv)
           dec == TryConnectDecode(got.payload)
       IN  /\ got.st # "block"
           /\ CASE got.st = "panic" ->
                     /\ on_connect' = on_connect
                     /\ cpc' = "panicked"
                [] got.st = "err" \/ (got.st = "ok" /\ dec.st = "err") ->
                     /\ on_connect' = OneShot("Err", FALSE, NoReply)
                     /\ cpc' = "returned"
                [] got.st = "ok" /\ dec.st = "ok" ->
                     /\ on_connect' = OneShot("Ok", FALSE, dec.val)
                     /\ cpc' = "wait_stop"
    /\ UNCHANGED << c_username, c_hello_send, c_hello_recv, sent_reply, handle,
                    tick_result, established, fvars, svars, hvars, kvars, ovars >>

\* try_connect from receive_bytes on, and net_main's on_connect.send
ClientReceive ==
    /\ cpc = "await_response"
    /\ c_hello_recv # NoStream
    /\ LET got == ClientReceiveBytes(c_hello_recv)
           dec == TryConnectDecode(got.payload)
       IN  /\ got.st # "block"
           /\ CASE got.st = "panic" ->
                     /\ on_connect' = OneShot("Dropped", FALSE, NoReply)
                     /\ cpc' = "panicked"
                [] got.st = "err" \/ (got.st = "ok" /\ dec.st = "err") ->
                     /\ on_connect' = OneShot("Err", FALSE, NoReply)
                     /\ cpc' = "returned"
                [] got.st = "ok" /\ dec.st = "ok" ->
                     /\ on_connect' = OneShot("Ok", FALSE, dec.val)
                     /\ cpc' = "wait_stop"
    /\ UNCHANGED << c_username, c_hello_send, c_hello_recv, sent_reply, handle,
                    tick_result, established, fvars, svars, hvars, kvars, ovars >>

\* Connecting::tick
ConnectingTickNoTake ==
    /\ cpc # "off"
    /\ CASE on_connect.sent = "Ok" ->
              /\ IF handle = "Some"
                 THEN /\ handle' = "None"
                      /\ tick_result' = "established"
                      /\ established' = established + 1
                 ELSE /\ tick_result' = "panicked"
                      /\ UNCHANGED << handle, established >>
              /\ UNCHANGED on_connect
         [] on_connect.sent = "Err" ->
              /\ tick_result' = "failed"
              /\ UNCHANGED << on_connect, handle, established >>
         [] on_connect.sent = "None" ->
              /\ tick_result' = "pending"
              /\ UNCHANGED << on_connect, handle, established >>
         [] on_connect.sent = "Dropped" ->
              /\ tick_result' = "failed"
              /\ UNCHANGED << on_connect, handle, established >>
    /\ UNCHANGED << cpc, c_username, c_hello_send, c_hello_recv, sent_reply, fvars, svars, hvars, kvars, ovars >>

ConnectingTick ==
    /\ cpc # "off"
    /\ CASE on_connect.sent = "Ok" /\ ~on_connect.taken ->
              /\ IF handle = "Some"
                 THEN /\ handle' = "None"
                      /\ tick_result' = "established"
                      /\ established' = established + 1
                 ELSE /\ tick_result' = "panicked"
                      /\ UNCHANGED << handle, established >>
              /\ on_connect' = [on_connect EXCEPT !.taken = TRUE]
         [] on_connect.sent = "Err" /\ ~on_connect.taken ->
              /\ tick_result' = "failed"
              /\ on_connect' = [on_connect EXCEPT !.taken = TRUE]
              /\ UNCHANGED << handle, established >>
         [] on_connect.sent = "None" ->
              /\ tick_result' = "pending"
              /\ UNCHANGED << on_connect, handle, established >>
         [] on_connect.sent = "Dropped" \/ on_connect.taken ->
              /\ tick_result' = "failed"
              /\ UNCHANGED << on_connect, handle, established >>
    /\ UNCHANGED << cpc, c_username, c_hello_send, c_hello_recv, sent_reply, fvars, svars, hvars, kvars, ovars >>

\* --------------------------------------------------------------------------
\* Client: the established connection (lib.rs ServerConnection) and net_main
\* after the handshake
\* --------------------------------------------------------------------------
\* a chat payload: write_str(text)
ChatPayload(text) == U16ToLe(Len(text)) \o text

\* the text of the k-th message written, each its own letter
ChatText(k) == << 96 + k >>

\* JoinHandle::is_finished of the network thread
ThreadFinished == cpc \in {"returned", "panicked", "finished"}

\* ServerConnection::open
ConnOpen == ~ThreadFinished

\* the game loop holds a ServerConnection
HasConnection == established = 1 /\ c_stop # "Dropped"

\* a stop one-shot that resolves only when a value was sent
StopValueSent ==
    c_stop_fired > 0

\* the stop one-shot resolves at the receiver: a value was sent, or the sender
\* is gone
StopResolved ==
    c_stop_fired > 0 \/ c_stop = "Dropped"

\* ServerConnection::poll
ConnPoll ==
    /\ HasConnection
    /\ IF Len(c_incoming) > 0
       THEN /\ c_poll_result' = PollSome(Head(c_incoming))
            /\ c_polled' = Append(c_polled, Head(c_incoming))
            /\ c_incoming' = Tail(c_incoming)
       ELSE /\ c_poll_result' = PollNone
            /\ UNCHANGED << c_incoming, c_polled >>
    /\ UNCHANGED << cvars, c_conn, c_stop, c_stop_calls, c_stop_fired, c_chat,
                    c_chat_out, c_shutdown, fvars, svars, hvars, ovars >>

\* ServerConnection::stop
ConnStop ==
    /\ HasConnection
    /\ c_stop_calls < MaxStopCalls
    /\ c_stop_calls' = c_stop_calls + 1
    /\ IF c_stop = "Some"
       THEN c_stop' = "None" /\ c_stop_fired' = c_stop_fired + 1
       ELSE UNCHANGED << c_stop, c_stop_fired >>
    /\ UNCHANGED << cvars, c_conn, c_incoming, c_polled, c_poll_result, c_chat,
                    c_chat_out, c_shutdown, fvars, svars, hvars, ovars >>

\* the game loop sends a payload on channels().chat
ChatEnqueue ==
    /\ HasConnection
    /\ ConnOpen
    /\ Len(c_chat) < ChatCapacity
    /\ Len(c_chat) < MaxChatMsgs
    /\ c_chat' = Append(c_chat, ChatPayload(ChatText(Len(c_chat) + 1)))
    /\ UNCHANGED << cvars, c_conn, c_stop, c_stop_calls, c_stop_fired, c_incoming,
                    c_polled, c_poll_result, c_chat_out, c_shutdown, fvars, svars, hvars, ovars >>

\* the game loop lets go of the ServerConnection: the handle is detached and
\* Channels, with the stop sender in it, is dropped
ConnDrop ==
    /\ HasConnection
    /\ c_stop' = "Dropped"
    /\ UNCHANGED << cvars, c_conn, c_stop_calls, c_stop_fired, c_incoming, c_polled,
                    c_poll_result, c_chat, c_chat_out, c_shutdown, fvars, svars, hvars, ovars >>

\* the peer closes the connection or the transport fails
TransportLost ==
    /\ cpc = "wait_stop"
    /\ c_conn = "open"
    /\ c_conn' = "lost"
    /\ UNCHANGED << cvars, c_stop, c_stop_calls, c_stop_fired, c_incoming, c_polled,
                    c_poll_result, c_chat, c_chat_out, c_shutdown, fvars, svars, hvars, ovars >>

\* net_main: the select! on channels.stop completes, then endpoint.close
NetObserveStopNoClose ==
    /\ cpc = "wait_stop"
    /\ StopResolved
    /\ cpc' = "wait_idle"
    /\ UNCHANGED << c_username, c_hello_send, c_hello_recv, sent_reply, on_connect,
                    handle, tick_result, established, c_conn, c_shutdown,
                    c_stop, c_stop_calls, c_stop_fired, c_incoming, c_polled,
                    c_poll_result, c_chat, c_chat_out, fvars, svars, hvars, ovars >>

NetObserveStopOpenOnly ==
    /\ cpc = "wait_stop"
    /\ StopResolved
    /\ c_conn = "open"
    /\ cpc' = "wait_idle"
    /\ c_shutdown' = Append(c_shutdown, "close")
    /\ c_conn' = "closed"
    /\ UNCHANGED << c_username, c_hello_send, c_hello_recv, sent_reply, on_connect,
                    handle, tick_result, established,
                    c_stop, c_stop_calls, c_stop_fired, c_incoming, c_polled,
                    c_poll_result, c_chat, c_chat_out, fvars, svars, hvars, ovars >>

NetObserveStop ==
    /\ cpc = "wait_stop"
    /\ StopResolved
    /\ cpc' = "wait_idle"
    /\ c_shutdown' = Append(c_shutdown, "close")
    /\ c_conn' = IF c_conn = "open" THEN "closed" ELSE c_conn
    /\ UNCHANGED << c_username, c_hello_send, c_hello_recv, sent_reply, on_connect,
                    handle, tick_result, established,
                    c_stop, c_stop_calls, c_stop_fired, c_incoming, c_polled,
                    c_poll_result, c_chat, c_chat_out, fvars, svars, hvars, ovars >>

\* net_main: endpoint.wait_idle() completes and the thread returns
NetWaitIdle ==
    /\ cpc = "wait_idle"
    /\ cpc' = "finished"
    /\ c_shutdown' = Append(c_shutdown, "idle")
    /\ UNCHANGED << c_username, c_hello_send, c_hello_recv, sent_reply, on_connect,
                    handle, tick_result, established, c_conn,
                    c_stop, c_stop_calls, c_stop_fired, c_incoming, c_polled,
                    c_poll_result, c_chat, c_chat_out, fvars, svars, hvars, ovars >>

ClientNext ==
    \/ ClientSendRequest
    \/ ClientConnectFails
    \/ ServerWritesResponse
    \/ ForeignServerWrites
    \/ ClientReceive
    \/ ConnectingTick
    \/ ConnPoll
    \/ ConnStop
    \/ ChatEnqueue
    \/ ConnDrop
    \/ TransportLost
    \/ NetObserveStop
    \/ NetWaitIdle

SpecClient == ClientInit /\ [][ClientNext]_vars

\* the network thread keeps running: once the handshake is over, tokio drives
\* net_main whenever it can take a step
SpecClientFair ==
    SpecClient /\ WF_vars(NetObserveStop) /\ WF_vars(NetWaitIdle)

\* --------------------------------------------------------------------------
\* One round trip: the server's login tasks with a game loop, and a client
\* writing its request
\* --------------------------------------------------------------------------
RoundInit ==
    /\ ServerStart
    /\ ClientStart
    /\ FramingIdle

RoundNext ==
    \/ \E c \in Conns : PeerConnect(c)
    \/ \E c \in Conns : PeerClose(c)
    \/ \E c \in Conns : LoginReceive(c)
    \/ \E c \in Conns : LoginRespond(c)
    \/ \E c \in Conns : LoginFinish(c)
    \/ \E c \in Conns : SendPlayerJoined(c)
    \/ \E c \in Conns : SendPlayerLeft(c)
    \/ GameLoopRecv
    \/ ClientSendRequest
    \/ ClientConnectFails

SpecRound == RoundInit /\ [][RoundNext]_vars

\* --------------------------------------------------------------------------
\* The repository's client against the repository's server: the client's
\* connection is the server's connection ClientConn, and other peers use the
\* remaining ones.  The transport carries the bytes of the handshake stream
\* both ways.
\* --------------------------------------------------------------------------
ClientConn == CHOOSE c \in Conns : \A d \in Conns : c <= d

\* the client waits in receive_bytes for more bytes of the response
ClientWaits == cpc = "await_response" /\ ClientReceiveBytes(c_hello_recv).st = "block"

\* the server's login for the client waits in receive_bytes for more bytes of
\* the request
ServerWaits ==
    /\ spc[ClientConn] = "receive"
    /\ conn_open[ClientConn]
    /\ ServerReceiveBytes(hello_recv[ClientConn]).st = "block"

\* quinn: the listener accepts the client's connection and stream with the
\* request on it, and later carries to the client what login has written
QuicDeliver ==
    /\ cpc = "await_response"
    /\ net_thread = "accepting"
    /\ IF spc[ClientConn] = "idle"
       THEN /\ hello_recv' = [hello_recv EXCEPT ![ClientConn] = Stream(c_hello_send, FALSE)]
            /\ spc' = [spc EXCEPT ![ClientConn] = "receive"]
            /\ conn_open' = [conn_open EXCEPT ![ClientConn] = TRUE]
            /\ UNCHANGED c_hello_recv
       ELSE /\ hello_send[ClientConn] # NoStream
            /\ c_hello_recv # hello_send[ClientConn]
            /\ c_hello_recv' = hello_send[ClientConn]
            /\ UNCHANGED << hello_recv, spc, conn_open >>
    /\ UNCHANGED << hello_send, buffer, username, id_channel, nid, close_calls,
                    joined_sent, left_sent, server_messages, stop, cpc, c_username,
                    c_hello_send, sent_reply, on_connect, handle, tick_result,
                    established, fvars, hvars, kvars, ovars >>

\* quinn: the connection is lost while both ends wait (an idle timeout)
HandshakeTimeout ==
    /\ ClientWaits
    /\ ServerWaits
    /\ conn_open' = [conn_open EXCEPT ![ClientConn] = FALSE]
    /\ c_hello_recv' = Stream(c_hello_recv.bytes, TRUE)
    /\ UNCHANGED << spc, hello_recv, hello_send, buffer, username, id_channel, nid,
                    close_calls, joined_sent, left_sent, server_messages, stop, cpc,
                    c_username, c_hello_send, sent_reply, on_connect, handle,
                    tick_result, established, fvars, hvars, kvars, ovars >>

OtherPeerConnects == \E c \in Conns \ {ClientConn} : PeerConnect(c)

ServerLogin(c) ==
    \/ LoginReceive(c)
    \/ LoginRespond(c)
    \/ LoginFinish(c)
    \/ SendPlayerJoined(c)
    \/ SendPlayerLeft(c)

HandshakeNext ==
    \/ ClientSendRequest
    \/ QuicDeliver
    \/ HandshakeTimeout
    \/ OtherPeerConnects
    \/ \E c \in Conns : ServerLogin(c)
    \/ ProcessNetMessages
    \/ ClientReceive
    \/ ConnectingTick

SpecHandshake == RoundInit /\ [][HandshakeNext]_vars

\* --------------------------------------------------------------------------
\* Server inbound chat: channels.rs recv_driver feeding NetServer::poll
\* --------------------------------------------------------------------------
\* a payload recv_driver cannot read: a declared length with no bytes behind
\* it, or an empty payload
BadChatPayload(k) == IF k % 2 = 1 THEN << 5, 0 >> ELSE << >>

RECURSIVE FrameCount(_)
FrameCount(bytes) ==
    LET got == ServerReceiveBytes(Stream(bytes, TRUE))
    IN  IF got.st # "ok" THEN 0
        ELSE 1 + FrameCount(SubSeq(bytes, got.consumed + 1, Len(bytes)))

\* the messages written so far on the chat streams of connections 1..n
RECURSIVE ChatsWritten(_)
ChatsWritten(n) ==
    IF n = 0 THEN 0
    ELSE Len(chat_got[n]) + FrameCount(chat_recv[n].bytes) + ChatsWritten(n - 1)

\* the username and id a connection's recv_driver is given
DriverName(c) == Name(MinUsernameLen)

DriverId(c) == c

\* format!("{username}: {}", stream.read_str()): read_u16 of a payload
\* shorter than two bytes is a debug assertion in a debug build and an
\* unchecked read in a release build, after which the slice panics
ChatMessageOutcomes(c, payload) ==
    IF Len(payload) < 2 THEN {[st |-> "panic", str |-> << >>]}
    ELSE {IF o.st = "ok"
          THEN [st |-> "ok", str |-> DriverName(c) \o << 58, 32 >> \o o.str]
          ELSE o : o \in ReadStrOutcomes(ByteReaderNew(payload))}

ChatInit ==
    /\ spc = [c \in Conns |-> "off"]
    /\ conn_open = [c \in Conns |-> TRUE]
    /\ hello_recv = [c \in Conns |-> NoStream]
    /\ hello_send = [c \in Conns |-> NoStream]
    /\ buffer = [c \in Conns |-> << >>]
    /\ username = [c \in Conns |-> << >>]
    /\ id_channel = [c \in Conns |-> ChannelState("None")]
    /\ nid = [c \in Conns |-> DriverId(c)]
    /\ close_calls = [c \in Conns |-> << >>]
    /\ joined_sent = [c \in Conns |-> 0]
    /\ left_sent = [c \in Conns |-> 0]
    /\ server_messages = << >>
    /\ stop = "Some"
    /\ net_thread = "accepting"
    /\ on_ready = "Ok"
    /\ start_result = "Ok"
    /\ game_loop = "running"
    /\ stop_calls = 0
    /\ stop_fired = 0
    /\ incoming = << >>
    /\ polled = << >>
    /\ poll_result = PollUnset
    /\ chat_recv = [c \in Conns |-> NoStream]
    /\ chat_got = [c \in Conns |-> << >>]
    /\ drv = [c \in Conns |-> "run"]
    /\ FramingIdle
    /\ ClientIdle

\* the peer writes one more framed message on its chat stream
PeerWritesChat(c) ==
    /\ conn_open[c]
    /\ ChatsWritten(NumConns) < MaxChatMsgs
    /\ LET k == ChatsWritten(NumConns) + 1
       IN  \E q \in {ChatPayload(ChatText(k)), BadChatPayload(k)} :
              chat_recv' = [chat_recv EXCEPT ![c] = Stream(@.bytes \o SerFrame(q), FALSE)]
    /\ UNCHANGED << svars, net_thread, stop_calls, stop_fired, incoming, polled,
                    poll_result, chat_got, drv, fvars, cvars, kvars, ovars >>

\* chat::recv_driver, one turn of its loop
RecvDriver(c) ==
    /\ drv[c] = "run"
    /\ LET got == IF conn_open[c] THEN ServerReceiveBytes(chat_recv[c])
                  ELSE [NoResult EXCEPT !.st = "err"]
       IN  /\ got.st # "block"
           /\ chat_recv' = [chat_recv EXCEPT ![c] =
                 Stream(SubSeq(@.bytes, got.consumed + 1, Len(@.bytes)), @.fin)]
           /\ IF got.st = "err"
              THEN /\ drv' = [drv EXCEPT ![c] = "err"]
                   /\ UNCHANGED << chat_got, incoming >>
              ELSE /\ chat_got' = [chat_got EXCEPT ![c] = Append(@, got.payload)]
                   /\ \E o \in ChatMessageOutcomes(c, got.payload) :
                         IF o.st = "ok"
                         THEN /\ incoming' = Append(incoming,
                                     [nid |-> DriverId(c), bytes |-> o.str])
                              /\ UNCHANGED drv
                         ELSE /\ drv' = [drv EXCEPT ![c] = "panicked"]
                              /\ UNCHANGED incoming
    /\ UNCHANGED << svars, net_thread, stop_calls, stop_fired, polled, poll_result,
                    fvars, cvars, kvars, ovars >>

ChatNext ==
    \/ \E c \in Conns : PeerWritesChat(c)
    \/ \E c \in Conns : PeerClose(c)
    \/ \E c \in Conns : RecvDriver(c)
    \/ NetServerPoll

SpecChat == ChatInit /\ [][ChatNext]_vars

\* the repository's server: its game loop drains what the drivers queue
GameNext ==
    \/ \E c \in Conns : PeerWritesChat(c)
    \/ \E c \in Conns : PeerClose(c)
    \/ \E c \in Conns : RecvDriver(c)
    \/ ProcessNetMessages

SpecGame == ChatInit /\ [][GameNext]_vars

\* --------------------------------------------------------------------------
\* The two handles the game loops hold: a server with logged-in connections,
\* or a client connecting and then connected
\* --------------------------------------------------------------------------
NetInit == ChatInit \/ ClientInit

NetNext ==
    \/ ChatNext
    \/ NetServerStop
    \/ ClientNext

SpecNet == NetInit /\ [][NetNext]_vars

\* --------------------------------------------------------------------------
\* The codecs on their own: a value goes through a writer and the bytes
\* written go through the matching reader
\* --------------------------------------------------------------------------
NetworkIdle ==
    /\ FramingQuiet
    /\ ServerIdle
    /\ ClientIdle

\* every value write_varint15 accepts
VarintInit ==
    /\ x_pc = "input"
    /\ x_in \in 0..(Varint15Limit - 1)
    /\ x_w = << >>
    /\ x_out = << >>
    /\ NetworkIdle

VarintWrite ==
    /\ x_pc = "input"
    /\ x_w' = BbBytes(BbWriteVarint15(BbNew(Zeros(2)), x_in))
    /\ x_pc' = "written"
    /\ UNCHANGED << x_in, x_out, fvars, svars, hvars, cvars, kvars, bvars >>

VarintRead ==
    /\ x_pc = "written"
    /\ x_out' = ReadVarint15(ByteReaderNew(x_w))
    /\ x_pc' = "read"
    /\ UNCHANGED << x_in, x_w, fvars, svars, hvars, cvars, kvars, bvars >>

VarintNext ==
    \/ VarintWrite
    \/ VarintRead

SpecVarint == VarintInit /\ [][VarintNext]_vars

\* the writes of test_bit_rw_roundtrip, a write at every width the two
\* codecs special-case (1, 31, 32), and the extremes of int
\* (a value is kept as a tuple: the bits of a u32, or the one i32 or bool)
UintOp(v, n) == [k |-> "uint", n |-> n, v |-> v]

IntOp(v, n) == [k |-> "int", n |-> n, v |-> << v >>]

BoolOp(b) == [k |-> "bool", n |-> 1, v |-> << IF b THEN 1 ELSE 0 >>]

BitOps ==
    { UintOp(U32Bits(291), 12), UintOp(U32Bits(77), 7), UintOp(AllOnes32, 32),
      UintOp(U32Bits(43690), 16), UintOp(U32Bits(1), 1), UintOp(U32Bits(2 ^ 30 + 1), 31),
      BoolOp(TRUE), BoolOp(FALSE),
      IntOp(-12345678, 28), IntOp(134217727, 28), IntOp(-134217728, 28),
      IntOp(-1, 1), IntOp(-1, 32), IntOp(0, 32) }

RECURSIVE SumWidths(_)
SumWidths(ops) == IF ops = << >> THEN 0 ELSE Head(ops).n + SumWidths(Tail(ops))

\* a buffer every one of the writes fits in, a multiple of 4 bytes long
BitBufferLen(ops) == 4 * ((SumWidths(ops) + WordBits - 1) \div WordBits)

BitsInit ==
    /\ x_pc = "input"
    /\ x_in \in SeqsUpTo(BitOps, MaxBitOps)
    /\ x_w = BwNew(BitBufferLen(x_in))
    /\ x_out = [done |-> 0, vals |-> << >>]
    /\ NetworkIdle

\* the next write: BitWriter::uint, int or bool
BitWriteNext ==
    /\ x_pc = "input"
    /\ x_out.done < Len(x_in)
    /\ LET op == x_in[x_out.done + 1]
       IN  \E o \in (CASE op.k = "uint" -> {[st |-> "ok", w |-> BwUint(x_w, op.v, op.n)]}
                       [] op.k = "bool" -> {[st |-> "ok", w |-> BwBool(x_w, op.v[1] = 1)]}
                       [] op.k = "int" -> BwIntOutcomes(x_w, op.v[1], op.n)) :
              /\ x_w' = o.w
              /\ x_pc' = IF o.st = "ok" THEN "input" ELSE "panicked"
    /\ x_out' = [x_out EXCEPT !.done = @ + 1]
    /\ UNCHANGED << x_in, fvars, svars, hvars, cvars, kvars, bvars >>

\* BitWriter::flush_partials, once the writes are done
BitFlush ==
    /\ x_pc = "input"
    /\ x_out.done = Len(x_in)
    /\ x_w' = BwFlushPartials(x_w)
    /\ x_pc' = "written"
    /\ UNCHANGED << x_in, x_out, fvars, svars, hvars, cvars, kvars, bvars >>

\* BitReader::new over the bytes written, or over the whole buffer
BitReaderNew ==
    /\ x_pc = "written"
    /\ \E len \in {BwComputeBytesWritten(x_w), Len(BwBuffer(x_w))} :
          x_out' = [r |-> BrNew(SubSeq(BwBuffer(x_w), 1, len)), vals |-> << >>]
    /\ x_pc' = "reading"
    /\ UNCHANGED << x_in, x_w, fvars, svars, hvars, cvars, kvars, bvars >>

\* the next read, of the kind and width of the write at the same place
BitReadNext ==
    /\ x_pc = "reading"
    /\ Len(x_out.vals) < Len(x_in)
    /\ LET op  == x_in[Len(x_out.vals) + 1]
           got == CASE op.k = "uint" -> BrUint(x_out.r, op.n)
                    [] op.k = "bool" -> BrBool(x_out.r)
                    [] op.k = "int" -> BrInt(x_out.r, op.n)
           val == CASE op.k = "uint" -> got.val
                    [] op.k = "bool" -> << IF got.val THEN 1 ELSE 0 >>
                    [] op.k = "int" -> << got.val >>
       IN  x_out' = [r |-> got.r, vals |-> Append(x_out.vals, val)]
    /\ UNCHANGED << x_pc, x_in, x_w, fvars, svars, hvars, cvars, kvars, bvars >>

BitsNext ==
    \/ BitWriteNext
    \/ BitFlush
    \/ BitReaderNew
    \/ BitReadNext

SpecBits == BitsInit /\ [][BitsNext]_vars

\* one signed field on its own, at every width the API takes and at the
\* values around the ends and the middle of the width's range
IntMin(n) == IF n = 1 THEN -1 ELSE (-(2 ^ (n - 2))) - 2 ^ (n - 2)

IntMax(n) == IF n = 1 THEN 0 ELSE (2 ^ (n - 2) - 1) + 2 ^ (n - 2)

IntSamples(n) ==
    {v \in {IntMin(n), IntMin(n) + 1, -1, 0, 1, IntMax(n) - 1, IntMax(n)} :
        v >= IntMin(n) /\ v <= IntMax(n)}

IntInit ==
    /\ x_pc = "input"
    /\ \E n \in 1..WordBits : \E v \in IntSamples(n) : x_in = IntOp(v, n)
    /\ x_w = BwNew(4)
    /\ x_out = << >>
    /\ NetworkIdle

\* BitWriter::int(value, n)
IntWrite ==
    /\ x_pc = "input"
    /\ \E o \in BwIntOutcomes(x_w, x_in.v[1], x_in.n) :
          /\ x_w' = o.w
          /\ x_pc' = IF o.st = "ok" THEN "put" ELSE "panicked"
    /\ UNCHANGED << x_in, x_out, fvars, svars, hvars, cvars, kvars, bvars >>

\* BitWriter::flush_partials
IntFlush ==
    /\ x_pc = "put"
    /\ x_w' = BwFlushPartials(x_w)
    /\ x_pc' = "written"
    /\ UNCHANGED << x_in, x_out, fvars, svars, hvars, cvars, kvars, bvars >>

\* BitReader::new(&buf).int(n)
IntRead ==
    /\ x_pc = "written"
    /\ x_out' = << BrInt(BrNew(BwBuffer(x_w)), x_in.n).val >>
    /\ x_pc' = "read"
    /\ UNCHANGED << x_in, x_w, fvars, svars, hvars, cvars, kvars, bvars >>

IntNext ==
    \/ IntWrite
    \/ IntFlush
    \/ IntRead

SpecInt == IntInit /\ [][IntNext]_vars

\* a BitReader over any buffer, read at any widths for as long as one likes:
\* buffers of every length around the 4-byte chunk and the 8-byte
\* accumulator, every bit of them set
ReadBuffers == {[i \in 1..n |-> 255] : n \in {0, 1, 3, 4, 5, 8, 9}}

ReadWidths == {1, 8, 32}

ExhaustInit ==
    /\ x_pc = "reading"
    /\ x_in \in ReadBuffers
    /\ x_w = << >>
    /\ x_out = [r |-> BrNew(x_in), vals |-> << >>, consumed |-> 0]
    /\ NetworkIdle

\* BitReader::uint(n)
ExhaustUint ==
    /\ x_pc = "reading"
    /\ Len(x_out.vals) < MaxBitReads
    /\ \E n \in ReadWidths :
          LET got == BrUint(x_out.r, n)
          IN  x_out' = [r |-> got.r,
                        vals |-> Append(x_out.vals, [n |-> n, val |-> got.val, before |-> x_out.consumed]),
                        consumed |-> x_out.consumed + n]
    /\ UNCHANGED << x_pc, x_in, x_w, fvars, svars, hvars, cvars, kvars, bvars >>

\* BitReader::bool()
ExhaustBool ==
    /\ x_pc = "reading"
    /\ Len(x_out.vals) < MaxBitReads
    /\ LET got == BrBool(x_out.r)
       IN  x_out' = [r |-> got.r,
                     vals |-> Append(x_out.vals,
                                 [n |-> 1, val |-> U32Bits(IF got.val THEN 1 ELSE 0),
                                  before |-> x_out.consumed]),
                     consumed |-> x_out.consumed + 1]
    /\ UNCHANGED << x_pc, x_in, x_w, fvars, svars, hvars, cvars, kvars, bvars >>

ExhaustNext ==
    \/ ExhaustUint
    \/ ExhaustBool

SpecExhaust == ExhaustInit /\ [][ExhaustNext]_vars

\* the values of test_byte_rw_roundtrip and the extremes of each type; a
\* value is kept as a tuple: << b >> for a bool, u8, i8, u16, i16 or i32, the
\* limbs of a u32 or u64, << sign, limbs >> for an i64
ByteOp(k, v) == [k |-> k, v |-> v]

ByteOps ==
    { ByteOp("bool", << 1 >>), ByteOp("bool", << 0 >>),
      ByteOp("u8", << 19 >>), ByteOp("u8", << 255 >>),
      ByteOp("i8", << -19 >>), ByteOp("i8", << -128 >>),
      ByteOp("u16", << 43690 >>),
      ByteOp("i16", << 32767 >>), ByteOp("i16", << -32768 >>),
      ByteOp("u32", << 65535, 65535 >>),
      ByteOp("i32", << -1 >>), ByteOp("i32", << 2147483647 >>),
      ByteOp("u64", << 21554, 39030, 22136, 4660 >>),
      ByteOp("i64", << 1, 26505, 9029, 1, 0 >>), ByteOp("i64", << 1, 0, 0, 0, 32768 >>) }

TypeWidth(k) ==
    CASE k \in {"bool", "u8", "i8"} -> 1
      [] k \in {"u16", "i16"} -> 2
      [] k \in {"u32", "i32"} -> 4
      [] k \in {"u64", "i64"} -> 8

RECURSIVE TotalWidth(_)
TotalWidth(ops) == IF ops = << >> THEN 0 ELSE TypeWidth(Head(ops).k) + TotalWidth(Tail(ops))

SerWriteOp(w, op) ==
    CASE op.k = "bool" -> SerWriteBool(w, op.v[1] = 1)
      [] op.k = "u8" -> SerWriteU8(w, op.v[1])
      [] op.k = "i8" -> SerWriteI8(w, op.v[1])
      [] op.k = "u16" -> SerWriteU16(w, op.v[1])
      [] op.k = "i16" -> SerWriteI16(w, op.v[1])
      [] op.k = "u32" -> SerWriteU32(w, op.v)
      [] op.k = "i32" -> SerWriteI32(w, op.v[1])
      [] op.k = "u64" -> SerWriteU64(w, op.v)
      [] op.k = "i64" -> SerWriteI64(w, op.v)

ReadOp(r, k) ==
    CASE k = "bool" -> [ReadBool(r) EXCEPT !.val = << IF @ THEN 1 ELSE 0 >>]
      [] k = "u8" -> [ReadU8(r) EXCEPT !.val = << @ >>]
      [] k = "i8" -> [ReadI8(r) EXCEPT !.val = << @ >>]
      [] k = "u16" -> [ReadU16(r) EXCEPT !.val = << @ >>]
      [] k = "i16" -> [ReadI16(r) EXCEPT !.val = << @ >>]
      [] k = "u32" -> ReadU32(r)
      [] k = "i32" -> [ReadI32(r) EXCEPT !.val = << @ >>]
      [] k = "u64" -> ReadU64(r)
      [] k = "i64" -> ReadI64(r)

\* ByteWriter::new over a buffer the values fit in, with a byte to spare
BytesInit ==
    /\ x_pc = "input"
    /\ x_in \in SeqsUpTo(ByteOps, MaxByteOps)
    /\ x_w = [w |-> SerNew(Zeros(TotalWidth(x_in) + 1)), at |-> << >>]
    /\ x_out = [vals |-> << >>, at |-> << >>]
    /\ NetworkIdle

\* the next ByteWriter::write_*; `at` keeps the cursor after each
BytesWriteNext ==
    /\ x_pc = "input"
    /\ Len(x_w.at) < Len(x_in)
    /\ LET w == SerWriteOp(x_w.w, x_in[Len(x_w.at) + 1])
       IN  x_w' = [w |-> w, at |-> Append(x_w.at, SerBytesWritten(w))]
    /\ UNCHANGED << x_pc, x_in, x_out, fvars, svars, hvars, cvars, kvars, bvars >>

\* ByteReader::new(&buf)
BytesReaderNew ==
    /\ x_pc = "input"
    /\ Len(x_w.at) = Len(x_in)
    /\ x_out' = [r |-> ByteReaderNew(x_w.w.dst), vals |-> << >>, at |-> << >>]
    /\ x_pc' = "reading"
    /\ UNCHANGED << x_in, x_w, fvars, svars, hvars, cvars, kvars, bvars >>

\* the next ByteReader::read_*, of the type written at the same place
BytesReadNext ==
    /\ x_pc = "reading"
    /\ Len(x_out.vals) < Len(x_in)
    /\ LET got == ReadOp(x_out.r, x_in[Len(x_out.vals) + 1].k)
       IN  x_out' = [r |-> got.r, vals |-> Append(x_out.vals, got.val),
                     at |-> Append(x_out.at, BytesRead(got.r))]
    /\ UNCHANGED << x_pc, x_in, x_w, fvars, svars, hvars, cvars, kvars, bvars >>

BytesNext ==
    \/ BytesWriteNext
    \/ BytesReaderNew
    \/ BytesReadNext

SpecBytes == BytesInit /\ [][BytesNext]_vars

\* --------------------------------------------------------------------------
\* The handshake request on the wire: try_connect writes it, the server's
\* login receives it.  A username is a str, so its bytes are valid UTF-8.
\* --------------------------------------------------------------------------
UsernameBytes == {97, 98, 122}

\* the shortest username whose request no longer fits a one-byte header
LongUsernameLen == Varint1Max + 1 - MinRequestLen

Usernames == SeqsUpTo(UsernameBytes, MaxNameLen) \cup {Name(LongUsernameLen)}

RequestInit ==
    /\ x_pc = "input"
    /\ x_in \in Usernames
    /\ x_w = << >>
    /\ x_out = NoResult
    /\ NetworkIdle

\* try_connect: build the request and write_all(writer.bytes())
RequestWrite ==
    /\ x_pc = "input"
    /\ x_w' = ClientRequestBytes(x_in)
    /\ x_pc' = "written"
    /\ UNCHANGED << x_in, x_out, fvars, svars, hvars, cvars, kvars, bvars >>

\* login: receive_bytes on the stream the client keeps open while it waits
\* for the response
RequestReceive ==
    /\ x_pc = "written"
    /\ x_out' = ServerReceiveBytes(Stream(x_w, FALSE))
    /\ x_pc' = "received"
    /\ UNCHANGED << x_in, x_w, fvars, svars, hvars, cvars, kvars, bvars >>

RequestNext ==
    \/ RequestWrite
    \/ RequestReceive

SpecRequest == RequestInit /\ [][RequestNext]_vars

\* --------------------------------------------------------------------------
\* ByteReader reads at any cursor position of any buffer.  The scalar reads
\* guard the index with debug_assert! only and fetch with get_unchecked: past
\* the end a debug build panics and a release build reads whatever lies
\* outside the buffer.  An outcome is [st, val, pos]: the bytes or value read
\* and the cursor after it.
\* --------------------------------------------------------------------------
OutsideBytes == {0, 255}

ReadBytesOutcomes(r, n) ==
    IF r.pos + n <= Len(r.src)
    THEN {[st |-> "ok", val |-> SubSeq(r.src, r.pos + 1, r.pos + n), pos |-> r.pos + n]}
    ELSE LET inside == SubSeq(r.src, r.pos + 1, Len(r.src))
         IN  {[st |-> "panic", val |-> << >>, pos |-> r.pos + n]}
                 \cup {[st |-> "oob", val |-> inside \o t, pos |-> r.pos + n] :
                          t \in [1..(n - Len(inside)) -> OutsideBytes]}

\* read_varint15: read_u8, and another read_u8 when the top bit is set
ReadVarint15Outcomes(r) ==
    UNION {IF o.st = "panic" \/ o.val[1] < 128
           THEN {o}
           ELSE {[st  |-> IF o.st = "oob" /\ o2.st = "ok" THEN "oob" ELSE o2.st,
                  val |-> IF o2.st = "panic" THEN << >>
                          ELSE << (o.val[1] % 128) + 128 * o2.val[1] >>,
                  pos |-> o2.pos] :
                    o2 \in ReadBytesOutcomes([r EXCEPT !.pos = o.pos], 1)} :
           o \in ReadBytesOutcomes(r, 1)}

\* read_str: read_u16, then the bounds-checked slice
ReadStrAnyOutcomes(r) ==
    IF r.pos + 2 <= Len(r.src)
    THEN {[st |-> o.st, val |-> o.str,
           pos |-> IF o.st = "ok" THEN r.pos + 2 + Len(o.str) ELSE r.pos + 2] :
              o \in ReadStrOutcomes(r)}
    ELSE {[st |-> o.st, val |-> << >>, pos |-> o.pos] : o \in ReadBytesOutcomes(r, 2)}

ScalarKinds == {"u8", "u16", "u32", "u64"}

\* the bytes a read needs from the cursor on
BytesNeeded(kind, r) ==
    CASE kind \in ScalarKinds -> TypeWidth(kind)
      [] kind = "varint15" ->
            IF r.pos < Len(r.src) /\ r.src[r.pos + 1] >= 128 THEN 2 ELSE 1
      [] kind = "str" ->
            IF r.pos + 2 <= Len(r.src)
            THEN 2 + U16FromLe(r.src[r.pos + 1], r.src[r.pos + 2]) ELSE 2
      [] kind = "login" ->
            IF Len(r.src) >= MinRequestLen
            THEN MinRequestLen + U16FromLe(r.src[5], r.src[6]) ELSE 0

\* a request whose username is shorter than it declares, and a whole one
DecodeBuffers ==
    SeqsUpTo({1, 200}, MaxPayloadLen)
        \cup { RequestPayload(PROTOCOL_MAGIC, PROTOCOL_VERSION, 9, Name(2)),
               RequestPayload(PROTOCOL_MAGIC, PROTOCOL_VERSION, 3, Name(3)) }

NoOutcome == [st |-> "none", val |-> << >>, pos |-> 0]

DecodeInit ==
    /\ x_pc = "input"
    /\ \E src \in DecodeBuffers : \E pos \in 0..Len(src) : x_in = [src |-> src, pos |-> pos]
    /\ x_w = << >>
    /\ x_out = NoOutcome
    /\ NetworkIdle

DecodeScalar ==
    /\ x_pc = "input"
    /\ \E kind \in ScalarKinds :
          /\ x_w' = << kind >>
          /\ x_out' \in ReadBytesOutcomes(x_in, TypeWidth(kind))
    /\ x_pc' = "done"
    /\ UNCHANGED << x_in, fvars, svars, hvars, cvars, kvars, bvars >>

DecodeVarint15 ==
    /\ x_pc = "input"
    /\ x_w' = << "varint15" >>
    /\ x_out' \in ReadVarint15Outcomes(x_in)
    /\ x_pc' = "done"
    /\ UNCHANGED << x_in, fvars, svars, hvars, cvars, kvars, bvars >>

DecodeStr ==
    /\ x_pc = "input"
    /\ x_w' = << "str" >>
    /\ x_out' \in ReadStrAnyOutcomes(x_in)
    /\ x_pc' = "done"
    /\ UNCHANGED << x_in, fvars, svars, hvars, cvars, kvars, bvars >>

\* login on a received payload, up to the username
DecodeLogin ==
    /\ x_pc = "input"
    /\ x_in.pos = 0
    /\ x_w' = << "login" >>
    /\ \E o \in LoginCheck(x_in.src) :
          x_out' = [st |-> o.st, val |-> IF o.st = "ok" THEN o.str ELSE << >>, pos |-> 0]
    /\ x_pc' = "done"
    /\ UNCHANGED << x_in, fvars, svars, hvars, cvars, kvars, bvars >>

DecodeNext ==
    \/ DecodeScalar
    \/ DecodeVarint15
    \/ DecodeStr
    \/ DecodeLogin

SpecDecode == DecodeInit /\ [][DecodeNext]_vars

\* C1: a payload of any length 0..65535 framed by the serialization writer and
\* parsed by the server's receive_bytes comes back with the same length and
\* the same bytes.
C1_FramingRoundTrip ==
    (f_writer = "ser" /\ f_srv.st # "none")
        => (f_srv.st = "ok" /\ f_srv.payload = f_payload)

\* C2: on every byte stream the client's and the server's receive_bytes
\* consume the same bytes and return the same payload, and each returns the
\* payload the bits_and_bytes writer framed.
C2_PeersAgreeOnFraming ==
    (f_srv.st # "none" /\ f_cli.st # "none")
        => /\ f_srv = f_cli
           /\ f_writer = "bb" => (f_srv.st = "ok" /\ f_srv.payload = f_payload)

\* --------------------------------------------------------------------------
\* Handshake, server side
\* --------------------------------------------------------------------------
\* the request login receives on connection c: the payload receive_bytes
\* returns for the bytes the peer has written
Received(c) == ServerReceiveBytes(hello_recv[c])

LoginReceives(c) ==
    spc[c] = "receive" /\ spc'[c] # "receive" /\ conn_open[c] /\ Received(c).st = "ok"

HeaderMismatch(p) ==
    \/ Len(p) < 6
    \/ U16FromLe(p[1], p[2]) # PROTOCOL_MAGIC
    \/ U16FromLe(p[3], p[4]) # PROTOCOL_VERSION

\* the username of a request whose header matches, when it decodes
DeclaredLen(p) == U16FromLe(p[5], p[6])

UsernameDecodes(p) ==
    /\ 6 + DeclaredLen(p) <= Len(p)
    /\ \A i \in 7..(6 + DeclaredLen(p)) : p[i] < 128

NothingSentFor(c) ==
    /\ hello_send[c].bytes = << >>
    /\ id_channel[c].tag = "None"
    /\ \A i \in 1..Len(server_messages) : server_messages[i].conn # c
    /\ joined_sent[c] = 0
    /\ left_sent[c] = 0

RejectedWith(c, pc, code) ==
    spc[c] = pc => (close_calls[c] = << code >> /\ NothingSentFor(c))

\* C4: a request with a wrong magic, a wrong version or fewer than 6 payload
\* bytes makes login close the connection with code 1 and return; for that
\* connection no response is ever written, no LoginRequest is sent to the
\* main thread, and no PlayerJoined or PlayerLeft is sent.
C4_MismatchRejected ==
    /\ [](\A c \in Conns : RejectedWith(c, "bail_invalid", 1))
    /\ [][\A c \in Conns :
            (LoginReceives(c) /\ HeaderMismatch(Received(c).payload))
                => spc'[c] = "bail_invalid"]_vars

C4_Witness ==
    \E c \in Conns : spc[c] = "bail_invalid" /\ close_calls[c] = << 1 >>

\* C5: a request whose header matches and whose username decodes to fewer
\* than 3 bytes makes login close the connection with code 2 and return; no
\* response, no LoginRequest, no PlayerJoined and no PlayerLeft for it.
C5_ShortUsernameRejected ==
    /\ [](\A c \in Conns : RejectedWith(c, "bail_short", 2))
    /\ [][\A c \in Conns :
            (/\ LoginReceives(c)
             /\ ~HeaderMismatch(Received(c).payload)
             /\ UsernameDecodes(Received(c).payload)
             /\ DeclaredLen(Received(c).payload) < 3)
                => spc'[c] = "bail_short"]_vars

C5_Witness ==
    \E c \in Conns : spc[c] = "bail_short" /\ close_calls[c] = << 2 >>

SessionOpen(c) == joined_sent[c] = 1 /\ left_sent[c] = 0

\* C8: a NetworkId the main thread assigns in an Accepted reply is never the
\* invalid id 0 and never the id of another session that is open (joined
\* and not yet left).
C8_NetworkIdValidUnique ==
    \A c \in Conns :
        id_channel[c].tag = "Accepted"
            => /\ id_channel[c].nid # NetworkIdInvalid
               /\ \A d \in Conns \ {c} : SessionOpen(d) => nid[d] # id_channel[c].nid

HandshakeSucceeded(c) == hello_send[c].fin

\* C9: a connection whose handshake succeeds sends exactly one PlayerJoined
\* and exactly one PlayerLeft, PlayerJoined first; a connection whose
\* handshake fails or is denied sends neither.
C9_JoinLeaveEvents ==
    \A c \in Conns :
        /\ joined_sent[c] <= 1
        /\ left_sent[c] <= joined_sent[c]
        /\ joined_sent[c] = 1 => HandshakeSucceeded(c)
        /\ (spc[c] \in Terminal /\ HandshakeSucceeded(c))
              => (joined_sent[c] = 1 /\ left_sent[c] = 1)
        /\ (spc[c] \in Terminal /\ ~HandshakeSucceeded(c))
              => (joined_sent[c] = 0 /\ left_sent[c] = 0)
        /\ \A i, j \in 1..Len(server_messages) :
              (/\ server_messages[i].conn = c /\ server_messages[i].kind = "PlayerLeft"
               /\ server_messages[j].conn = c /\ server_messages[j].kind = "PlayerJoined")
                  => j < i

C9_Witness ==
    /\ \E c \in Conns :
          spc[c] = "done" /\ joined_sent[c] = 1 /\ left_sent[c] = 1
    /\ \E c \in Conns : spc[c] = "bail_denied"

\* C10: PlayerLeft is sent only once the connection has closed or failed, or
\* a stop was requested.
C10_LeftOnlyAfterClose ==
    [][\A c \in Conns :
          left_sent'[c] > left_sent[c] => (~conn_open[c] \/ stop # "Some")]_vars

Failed(c) == spc[c] \in {"bail_invalid", "bail_short", "bail_denied"}

CloseCode(c) == close_calls[c][Len(close_calls[c])]

\* C6: the close codes login uses for a protocol mismatch, for a too-short
\* username and for a denial are pairwise distinct: two connections that
\* failed in different classes were closed with different codes.
C6_DistinctCloseCodes ==
    \A c, d \in Conns :
        (Failed(c) /\ Failed(d) /\ spc[c] # spc[d]) => CloseCode(c) # CloseCode(d)

\* --------------------------------------------------------------------------
\* Identity allocation and the single round trip
\* --------------------------------------------------------------------------
ValidatedRequest(p) ==
    ~HeaderMismatch(p) /\ 6 + DeclaredLen(p) <= Len(p) /\ DeclaredLen(p) >= 3

RequestsQueuedFor(q, c) ==
    Cardinality({i \in 1..Len(q) : q[i] = LoginRequestMsg(c)})

\* C11: login sends one LoginRequest, with a fresh one-shot, for a validated
\* request and only for one, and never a second; the response is written
\* only in the step that takes an Accepted reply from the one-shot, and
\* PlayerJoined is sent only after the response; taking a Denied reply or
\* finding the one-shot dropped ends the task with no response written and
\* no PlayerJoined sent.
C11_AllocationRendezvous ==
    /\ [](\A c \in Conns :
            /\ RequestsQueuedFor(server_messages, c) <= 1
            /\ joined_sent[c] > 0 => hello_send[c].bytes # << >>
            /\ spc[c] \in {"idle", "receive"} => id_channel[c].tag = "None")
    /\ [][\A c \in Conns :
            /\ RequestsQueuedFor(server_messages', c) > RequestsQueuedFor(server_messages, c)
                  <=> (id_channel[c].tag = "None" /\ id_channel'[c].tag = "Pending")
            /\ (id_channel[c].tag = "None" /\ id_channel'[c].tag = "Pending")
                  <=> (LoginReceives(c) /\ spc'[c] = "await_id")
            /\ (LoginReceives(c) /\ spc'[c] = "await_id")
                  => ValidatedRequest(Received(c).payload)
            /\ id_channel[c].tag # "None" => id_channel'[c].tag \notin {"None"}
            /\ id_channel[c].tag = "Taken" => id_channel'[c].tag = "Taken"
            /\ hello_send'[c].bytes # hello_send[c].bytes
                  => (id_channel[c].tag = "Accepted" /\ id_channel'[c].tag = "Taken")
            /\ (id_channel[c].tag \in {"Denied", "Dropped"} /\ id_channel'[c].tag = "Taken")
                  => /\ spc'[c] \in Terminal
                     /\ hello_send'[c].bytes = << >>
                     /\ joined_sent'[c] = 0
            /\ spc[c] \in Terminal => (spc'[c] = spc[c] /\ hello_send'[c] = hello_send[c]
                                        /\ joined_sent'[c] = joined_sent[c])]_vars

C11_Witness ==
    \E c, d \in Conns :
        /\ spc[c] = "bail_denied" /\ hello_send[c].bytes = << >> /\ joined_sent[c] = 0
        /\ spc[d] = "joined" /\ hello_send[d].fin /\ id_channel[d].tag = "Taken"

\* the bytes are one message of the bits_and_bytes writer: a length header
\* and exactly the payload it announces
OneFrame(b) ==
    LET got == ClientReceiveBytes(Stream(b, TRUE))
    IN  got.st = "ok" /\ got.consumed = Len(b)

\* C12: on each connection the server writes at most one framed response on
\* the handshake stream and finishes the stream only after the response is
\* written, nothing being written after it; the client writes exactly one
\* framed request per connection attempt.
C12_SingleRoundTrip ==
    /\ [](/\ \A c \in Conns :
               /\ hello_send[c].bytes # << >> => OneFrame(hello_send[c].bytes)
               /\ hello_send[c].fin => hello_send[c].bytes # << >>
          /\ cpc = "connect" => c_hello_send = << >>
          /\ cpc = "await_response" => OneFrame(c_hello_send))
    /\ [][/\ \A c \in Conns :
               /\ hello_send[c].bytes # << >> => hello_send'[c].bytes = hello_send[c].bytes
               /\ hello_send[c].fin => hello_send'[c].fin
          /\ c_hello_send # << >> => c_hello_send' = c_hello_send]_vars

C12_Witness ==
    /\ \E c \in Conns : hello_send[c].fin /\ OneFrame(hello_send[c].bytes)
    /\ cpc = "await_response"
    /\ OneFrame(c_hello_send)

\* --------------------------------------------------------------------------
\* Handshake, client side
\* --------------------------------------------------------------------------
\* C3: the LoginResponse try_connect decodes from the response the server's
\* login wrote for Accepted{nid, position, head_rotation, world_seed} has the
\* same nid, position, head_rotation and world_seed, and it is what
\* Connecting::tick hands to the game loop.
C3_AcceptRoundTrip ==
    (sent_reply.tag = "Accepted" /\ cpc # "await_response")
        => /\ on_connect.sent = "Ok"
           /\ on_connect.val.nid = sent_reply.nid
           /\ on_connect.val.position = sent_reply.position
           /\ on_connect.val.head_rotation = sent_reply.head_rotation
           /\ on_connect.val.world_seed = sent_reply.world_seed

C3_Witness ==
    /\ sent_reply = DistinctReply
    /\ tick_result = "established"
    /\ on_connect.val = DistinctReply

FixedFrame(b) == Len(b) >= 2 /\ U16FromLe(b[1], b[2]) = Len(b) - 2

VarintFrame(b) == Len(b) >= 1 /\ b[1] <= Varint1Max /\ b[1] = Len(b) - 1

ShortResponse(b) ==
    \/ FixedFrame(b) /\ Len(b) - 2 < 30
    \/ VarintFrame(b) /\ Len(b) - 1 < 30

\* C7: a framed response of fewer than 30 payload bytes makes try_connect
\* return an error: the one-shot carries Err(reason), and tick reports
\* Failed and never Established.
C7_ShortResponseFails ==
    (ShortResponse(c_hello_recv.bytes) /\ cpc # "await_response")
        => /\ on_connect.sent = "Err"
           /\ established = 0
           /\ tick_result \in {"none", "pending", "failed"}

\* C13: wherever a handle exists (connection established, stop requested, or
\* the network thread finished) ServerConnection::poll and NetServer::poll can
\* be taken in one step, and a poll that finds the inbound queue empty returns
\* None and changes nothing else.
C13_PollNeverBlocks ==
    /\ [](/\ (net_thread # "off" => ENABLED NetServerPoll)
          /\ (HasConnection => ENABLED ConnPoll))
    /\ [][/\ (NetServerPoll /\ incoming = << >>) =>
               (poll_result' = PollNone /\ UNCHANGED << incoming, polled >>)
          /\ (ConnPoll /\ c_incoming = << >>) =>
               (c_poll_result' = PollNone /\ UNCHANGED << c_incoming, c_polled >>)]_vars

C13_Witness ==
    /\ HasConnection
    /\ c_stop_fired > 0
    /\ cpc = "wait_stop"
    /\ c_poll_result = PollNone

\* what connection c's messages have reached the game loop or wait in the queue
Delivered(c) ==
    LET FromC(e) == e.nid = DriverId(c)
    IN  SelectSeq(polled \o incoming, FromC)

\* how many received messages recv_driver has passed on
Handled(c) == IF drv[c] = "panicked" THEN Len(chat_got[c]) - 1 ELSE Len(chat_got[c])

\* the line recv_driver forms from a received payload
Formatted(c, payload) ==
    DriverName(c) \o << 58, 32 >> \o SubSeq(payload, 3, 2 + U16FromLe(payload[1], payload[2]))

C15_OutboundDrained ==
    \A i \in 1..MaxChatMsgs :
        (Len(c_chat) >= i) ~>
            (Len(c_chat_out) >= i /\ c_chat_out[i] = SerFrame(ChatPayload(ChatText(i))))

\* C16: over any sequence of stop() calls on a handle the stop one-shot is
\* fired at most once, a call that finds the sender already taken changes
\* nothing, and stop() can still be called once the network thread has
\* terminated.
C16_StopIdempotent ==
    /\ [](/\ stop_fired <= 1
          /\ c_stop_fired <= 1
          /\ (HasConnection /\ c_stop_calls < MaxStopCalls) => ENABLED ConnStop
          /\ (net_thread # "off" /\ stop_calls < MaxStopCalls) => ENABLED NetServerStop)
    /\ [][/\ (NetServerStop /\ stop # "Some") =>
               UNCHANGED << stop, stop_fired, net_thread, incoming, polled, poll_result >>
          /\ (ConnStop /\ c_stop # "Some") =>
               UNCHANGED << c_stop, c_stop_fired, cpc, c_conn, c_incoming, c_polled,
                            c_poll_result, c_chat, c_chat_out, c_shutdown >>]_vars

C16_Witness ==
    /\ HasConnection
    /\ ThreadFinished
    /\ c_stop_calls >= 2
    /\ c_stop_fired = 1

\* C17: after stop() is called on an established ServerConnection the network
\* thread eventually terminates, so open() eventually returns false, and from
\* then on it stays false.
C17_ClientStopTerminates ==
    /\ (c_stop_calls > 0) ~> ~ConnOpen
    /\ [][(established = 1 /\ ~ConnOpen) => ~ConnOpen']_vars

C17_Witness ==
    /\ HasConnection
    /\ c_stop_calls = 1
    /\ c_conn = "lost"
    /\ cpc = "finished"

\* C18: once the client network task has seen the stop signal it closes the
\* endpoint, then waits for the transport to become idle, then terminates, in
\* that order and each once; a thread that has terminated after a stop
\* request has issued the close.
C18_ShutdownOrder ==
    /\ cpc = "wait_stop" => c_shutdown = << >>
    /\ cpc = "wait_idle" => (StopResolved /\ c_shutdown = << "close" >>)
    /\ cpc = "finished" => (StopResolved /\ c_shutdown = << "close", "idle" >>)
    /\ (ThreadFinished /\ c_stop_fired > 0) => c_shutdown = << "close", "idle" >>

C18_Witness ==
    /\ cpc = "finished"
    /\ c_stop_fired = 1
    /\ c_shutdown = << "close", "idle" >>

\* C19: after NetServer::stop() has fired the stop one-shot the server's
\* network thread eventually terminates, so that NetServer::open() eventually
\* returns false.
C19_ServerStopTerminates == (stop_fired > 0) ~> (net_thread = "finished")

\* C20: if the transport connection of an established client fails or is
\* closed by the peer, and the game loop neither calls stop() nor lets go of
\* the handle, the network thread eventually terminates so that open()
\* returns false.
C20_LateFailureObserved ==
    (HasConnection /\ c_conn = "lost") ~>
        (~ConnOpen \/ c_stop_calls > 0 \/ ~HasConnection)

\* C21: over any sequence of tick() calls interleaved with the network
\* thread, tick returns Ok(None) exactly while the result one-shot is still
\* pending, returns the established connection at most once, and never
\* reaches handle.take().unwrap() with the handle already taken.
C21_TickDiscipline ==
    /\ [](established <= 1 /\ tick_result # "panicked")
    /\ [][ConnectingTick =>
            /\ (on_connect.sent = "None") <=> (tick_result' = "pending")
            /\ (tick_result' = "established") <=>
                   (on_connect.sent = "Ok" /\ established = 0 /\ established' = 1)]_vars

C21_Witness ==
    /\ established = 1
    /\ on_connect.sent = "Ok"
    /\ on_connect.taken
    /\ handle = "None"
    /\ tick_result = "failed"

\* C22: NetServer::start returns Ok only after the network thread has
\* created the listening endpoint and sent the ready signal, returns Err when
\* endpoint creation fails, and has not returned while no signal was sent.
C22_StartReadiness ==
    /\ start_result = "Ok" => (on_ready = "Ok" /\ net_thread = "accepting")
    /\ start_result = "Err" =>
           (on_ready \in {"Err", "Dropped"} /\ net_thread \in {"finished", "panicked"})
    /\ on_ready = "None" => start_result = "blocked"
    /\ (net_thread \in {"bind_failed", "finished", "panicked"}) => ~HasServer

C22_Witness ==
    /\ start_result = "Ok"
    /\ on_ready = "Ok"
    /\ \E c \in Conns : spc[c] = "joined"

\* C23: for every v in 0..32767, read_varint15 over the bytes write_varint15
\* wrote for v returns v and consumes exactly those bytes; the encoding is
\* one byte if and only if v < 128, and otherwise two bytes, the first with
\* its top bit set.
C23_VarintRoundTrip ==
    /\ x_pc \in {"written", "read"} =>
          /\ Len(x_w) = 1 <=> x_in < 128
          /\ Len(x_w) \in {1, 2}
          /\ (Len(x_w) = 2) <=> (x_w[1] >= 128)
    /\ x_pc = "read" =>
          /\ x_out.val = x_in
          /\ x_out.r.pos = Len(x_w)

C23_Witness ==
    /\ x_pc = "read"
    /\ x_in = Varint15Limit - 1
    /\ x_out.val = x_in
    /\ Len(x_w) = 2

\* C24: after any sequence of uint, bool and int writes that fits the buffer
\* and one flush_partials, a BitReader over the bytes written that reads the
\* same widths in the same order returns every written value; no write fails.
C24_BitRoundTrip ==
    /\ x_pc # "panicked"
    /\ x_pc = "reading" =>
          \A i \in 1..Len(x_out.vals) : x_out.vals[i] = x_in[i].v

\* C25: after any sequence of BitWriter writes that fits the buffer and one
\* flush_partials, bits_written() is the sum of the declared widths of the
\* writes and compute_bytes_written() is that sum divided by 8, rounded up.
C25_BitAccounting ==
    x_pc \in {"written", "reading"} =>
        /\ BwBitsWritten(x_w) = SumWidths(x_in)
        /\ BwComputeBytesWritten(x_w) * 8 >= SumWidths(x_in)
        /\ BwComputeBytesWritten(x_w) * 8 < SumWidths(x_in) + 8
        /\ ~x_w.dropped

C25_Witness ==
    /\ x_pc = "written"
    /\ SumWidths(x_in) > WordBits
    /\ SumWidths(x_in) % 8 # 0
    /\ BwBitsWritten(x_w) = SumWidths(x_in)

\* C26: for every buffer and every sequence of reads, a read returns the bits
\* of the buffer at its place and a zero for every bit past the end of the
\* buffer: once all bits of the buffer are consumed every further uint(n)
\* returns 0 and every bool() false, however many reads are made, and the
\* reader never looks outside the buffer.
C26_ReadsPastEndAreZero ==
    /\ x_out.r.buf_pos <= Len(x_in)
    /\ \A i \in 1..Len(x_out.vals) :
          LET rd == x_out.vals[i]
          IN  /\ rd.before >= 8 * Len(x_in) => rd.val = U32Bits(0)
              /\ \A j \in 1..WordBits :
                    rd.val[j] = IF j <= rd.n /\ rd.before + j <= 8 * Len(x_in) THEN 1 ELSE 0

C26_Witness ==
    /\ Len(x_in) > 0
    /\ Len(x_out.vals) = MaxBitReads
    /\ x_out.vals[MaxBitReads - 1].before >= 8 * Len(x_in)
    /\ x_out.vals[MaxBitReads].n = 32
    /\ x_out.vals[MaxBitReads].val = U32Bits(0)

\* the cursor positions in `at` advance by the width of each value's type
AdvancesByWidth(at) ==
    \A i \in 1..Len(at) :
        at[i] - (IF i = 1 THEN 0 ELSE at[i - 1]) = TypeWidth(x_in[i].k)

\* C27: for every sequence of bool/u8/i8/u16/i16/u32/i32/u64/i64 values
\* written with ByteWriter into a large-enough buffer, ByteReader reading the
\* same types in the same order returns every value, signed ones included,
\* and the write cursor and the read cursor advance by the width of the type
\* (1, 2, 4 or 8 bytes) at each operation.
C27_ByteRoundTrip ==
    /\ AdvancesByWidth(x_w.at)
    /\ AdvancesByWidth(x_out.at)
    /\ \A i \in 1..Len(x_out.vals) : x_out.vals[i] = x_in[i].v

C27_Witness ==
    /\ x_pc = "reading"
    /\ Len(x_in) = MaxByteOps
    /\ Len(x_out.vals) = Len(x_in)
    /\ x_in[1].k = "i64"
    /\ x_in[Len(x_in)].k = "i8"
    /\ x_out.vals[Len(x_in)] = << -128 >>

\* C28: for every username, the bytes the client writes to the handshake
\* stream are a 2-byte little-endian length prefix equal to 6 + the username's
\* byte count, then u16 PROTOCOL_MAGIC, u16 PROTOCOL_VERSION, the u16 username
\* length and the username bytes, and the server's login parses the same
\* magic, version and username from them.
C28_RequestLayout ==
    /\ x_pc \in {"written", "received"} =>
           x_w = U16ToLe(MinRequestLen + Len(x_in))
                     \o RequestPayload(PROTOCOL_MAGIC, PROTOCOL_VERSION, Len(x_in), x_in)
    /\ x_pc = "received" =>
           /\ x_out.st = "ok"
           /\ x_out.payload = RequestPayload(PROTOCOL_MAGIC, PROTOCOL_VERSION, Len(x_in), x_in)
           /\ LET m == ReadU16(ByteReaderNew(x_out.payload))
                  v == ReadU16(m.r)
              IN  /\ m.val = PROTOCOL_MAGIC
                  /\ v.val = PROTOCOL_VERSION
                  /\ \A o \in ReadStrOutcomes(v.r) : o.st = "ok" /\ o.str = x_in

\* the payload length a written frame's prefix states: a little-endian u16
\* from the serialization writer, a 15-bit varint from the bits_and_bytes one
PrefixOf(bytes) ==
    IF f_writer = "ser" THEN U16FromLe(bytes[1], bytes[2])
    ELSE ReadVarint15(ByteReaderNew(bytes)).val

\* C29: for every number of bytes written after new_for_message,
\* write_message_len either writes a length prefix equal to the payload's
\* byte count (bytes_written - 2) or rejects the message before writing the
\* header; it never writes a prefix that differs from the payload's length.
C29_PrefixIsPayloadLength ==
    (f_writer \in {"ser", "bb"} /\ f_wire.st = "ok")
        => PrefixOf(Unpack(f_wire.bytes)) = Len(Unpack(f_payload))

\* C30: for every source buffer and cursor position, a ByteReader scalar
\* read, read_varint15 or read_str that needs more bytes than remain (a string
\* whose declared u16 length exceeds the remaining bytes included) yields a
\* decoding error and never reads outside the buffer, and so does the
\* server's login for a request whose declared username length exceeds the
\* payload.
C30_ShortReadIsDecodingError ==
    (x_pc = "done" /\ x_in.pos + BytesNeeded(x_w[1], x_in) > Len(x_in.src))
        => x_out.st = "error"

\* the stream ends before the 2-byte header is complete or before the bytes
\* the header declares have arrived
Truncated(bytes) ==
    \/ Len(bytes) < 2
    \/ Len(bytes) - 2 < U16FromLe(bytes[1], bytes[2])

\* C31: if the stream ends before the 2-byte header is complete, or before
\* the declared number of payload bytes has arrived, receive_bytes (the
\* server's and the client's) returns an error and never a reader over a
\* partial payload.
C31_TruncatedIsError ==
    (f_writer = "raw" /\ Truncated(Unpack(f_payload)))
        => /\ f_srv.st \in {"none", "err"}
           /\ f_cli.st \in {"none", "err"}

RequestQueued(c) == \E i \in 1..Len(server_messages) : server_messages[i] = LoginRequestMsg(c)

\* C33: while the network thread is open, every LoginRequest the game loop
\* drains from server_messages in a tick is answered exactly once in that
\* tick with Accepted or Denied on its id_channel: none is left pending or
\* dropped once drained, and none is answered twice.
C33_RequestsAnswered ==
    /\ [](\A c \in Conns : id_channel[c].tag = "Pending" => RequestQueued(c))
    /\ [][\A c \in Conns :
            /\ (RequestQueued(c) /\ ~RequestQueued(c)')
                  => /\ id_channel[c].tag = "Pending"
                     /\ id_channel'[c].tag \in {"Accepted", "Denied"}
            /\ id_channel[c].tag \in {"Accepted", "Denied"}
                  => id_channel'[c] \in {id_channel[c], ChannelState("Taken")}]_vars

C33_Witness ==
    /\ server_messages = << >>
    /\ \A c \in Conns : id_channel[c].tag = "Accepted" /\ spc[c] = "await_id"

\* (value + 2^(n-1)) as an n-bit field
BiasedBits(v, n) ==
    IF n < WordBits THEN BitsOf(v + 2 ^ (n - 1), n)
    ELSE IF v >= 0 THEN BitsOf(v, 31) \o << 1 >>
    ELSE BitsOf((v + 2 ^ 30) + 2 ^ 30, 31) \o << 0 >>

\* C34: for every n_bits in 1..32 and every value in -2^(n_bits-1) ..
\* 2^(n_bits-1)-1, BitWriter::int(value, n_bits) stores (value + 2^(n_bits-1))
\* masked to n_bits bits and BitReader::int(n_bits) returns value, with no
\* shift overflow at n_bits = 32.
C34_SignedFieldRoundTrip ==
    /\ x_pc # "panicked"
    /\ x_pc \in {"written", "read"} =>
          SubSeq(WordFromLe(BwBuffer(x_w)), 1, x_in.n) = BiasedBits(x_in.v[1], x_in.n)
    /\ x_pc = "read" => x_out = x_in.v

\* C35: for every connection for which the main thread replied Accepted with
\* a NetworkId, a PlayerLeft for that id is eventually sent to the main thread
\* on every exit path of the connection task, also when writing or finishing
\* the handshake response fails after the id was allocated.
C35_NoLeakedIds ==
    \A c \in Conns : (id_channel[c].tag = "Accepted") ~> (left_sent[c] > 0)

\* everything either end has written on the handshake stream has arrived
NothingInFlight ==
    /\ hello_recv[ClientConn].bytes = c_hello_send
    /\ c_hello_recv = hello_send[ClientConn]

\* C36: when the transport connects, the client sends a request with a valid
\* header and a username of at least 3 bytes, and the server's main thread
\* keeps ticking and replies Accepted, the exchange never deadlocks with
\* client and server both waiting for bytes (which Connecting::tick
\* eventually returning Established requires).
C36_HandshakeProgress ==
    (Len(c_username) >= MinUsernameLen)
        => ~(ClientWaits /\ ServerWaits /\ NothingInFlight)

\* --------------------------------------------------------------------------
\* The listener: poll_new_connections with connection attempts that fail
\* --------------------------------------------------------------------------
\* connecting.await is Err: the attempt is logged and the loop continues; no
\* task is spawned for it
ConnectingFails(c) ==
    /\ net_thread = "accepting"
    /\ spc[c] = "idle"
    /\ spc' = [spc EXCEPT ![c] = "refused"]
    /\ UNCHANGED << conn_open, hello_recv, hello_send, buffer, username, id_channel,
                    nid, close_calls, joined_sent, left_sent, server_messages, stop,
                    fvars, hvars, cvars, kvars, ovars >>

ListenerNext == ServerNext \/ \E c \in Conns : ConnectingFails(c)

SpecListener == ServerInit /\ [][ListenerNext]_vars

Unsuccessful == {"refused", "bail_invalid", "bail_short", "bail_denied", "err", "panicked"}

\* what the handshake of connection d has come to
HandshakeOf(d) ==
    << spc[d], conn_open[d], hello_recv[d], hello_send[d], buffer[d], username[d],
       id_channel[d], nid[d], close_calls[d], joined_sent[d], left_sent[d] >>

EndsNow(c) == spc[c] \notin (Unsuccessful \cup {"done"}) /\ spc'[c] \in (Unsuccessful \cup {"done"})

\* C37: a failed connection attempt, a rejected or failed login, or the end
\* of one connection's task leaves the listener in its accept loop and
\* leaves every other connection's handshake as it was; a connection not yet
\* seen can still be accepted.
C37_ListenerIsolation ==
    /\ [](net_thread = "accepting")
    /\ [](\A d \in Conns : spc[d] = "idle" => ENABLED PeerConnect(d))
    /\ [][\A c \in Conns :
            EndsNow(c) =>
                /\ net_thread' = net_thread
                /\ \A d \in Conns \ {c} : HandshakeOf(d)' = HandshakeOf(d)]_vars

C37_Witness ==
    /\ net_thread = "accepting"
    /\ \E c, d \in Conns :
          /\ spc[c] \in Unsuccessful
          /\ spc[d] = "done" /\ hello_send[d].fin

\* the game loop let go of the ServerConnection without ever calling stop()
DroppedUnstopped == established = 1 /\ c_stop = "Dropped" /\ c_stop_calls = 0

\* C38: when the game loop drops an established ServerConnection without
\* calling stop(), the network task takes the dropped stop sender for a stop
\* request: it closes the endpoint, waits for it to be idle and terminates.
C38_DropRequestsShutdown ==
    DroppedUnstopped ~> (cpc = "finished" /\ c_shutdown = << "close", "idle" >>)

C38_Witness ==
    /\ DroppedUnstopped
    /\ c_stop_fired = 0
    /\ cpc = "finished"
    /\ c_shutdown = << "close", "idle" >>

TickReturned == tick_result \in {"established", "failed"}

\* the network thread is over and its result sender went unused
EndedUnsent == ThreadFinished /\ on_connect.sent \notin {"Ok", "Err"}

\* C39: once Connecting::tick has returned Established or Failed every later
\* tick returns Failed; a network thread that is over has sent a result or
\* dropped the sender, and the tick after a thread that ended without
\* sending returns Failed.
C39_TerminalSticky ==
    /\ [](EndedUnsent => on_connect.sent = "Dropped")
    /\ [][ConnectingTick =>
            /\ TickReturned => tick_result' = "failed"
            /\ EndedUnsent => tick_result' = "failed"]_vars

C39_Witness ==
    /\ established = 1
    /\ on_connect.sent = "Ok" /\ on_connect.taken
    /\ handle = "None"
    /\ tick_result = "failed"

\* the bits of a byte string, least significant first
ByteBits(bytes) ==
    [i \in 1..(8 * Len(bytes)) |-> (bytes[((i - 1) \div 8) + 1] \div (2 ^ ((i - 1) % 8))) % 2]

\* the field BitWriter::uint is handed by a write
FieldBits(op) ==
    CASE op.k = "uint" -> SubSeq(op.v, 1, op.n)
      [] op.k = "bool" -> op.v
      [] op.k = "int" -> BiasedBits(op.v[1], op.n)

\* every bit the writer holds: the words flushed, then the pending bits
HeldBits(w) == ByteBits(w.out) \o SubSeq(w.current, 1, w.bit_pos)

\* C40: after every BitWriter::uint, int or bool call of at most 32 bits
\* bit_pos is in 0..31, the accumulator holds nothing above bit_pos, and the
\* words flushed together with the pending bits are the fields written, each
\* at its place (an int of 32 bits aside, whose field is wrong before it
\* reaches the accumulator); after every BitReader::uint, int or bool call
\* bits_left is in 32..64.
C40_AccumulatorInvariants ==
    /\ x_pc = "input" =>
          /\ x_w.bit_pos \in 0..(WordBits - 1)
          /\ \A i \in (x_w.bit_pos + 1)..AccBits : x_w.current[i] = 0
          /\ Len(HeldBits(x_w)) = SumWidths(SubSeq(x_in, 1, x_out.done))
          /\ \A i \in 1..x_out.done :
                (x_in[i].k # "int" \/ x_in[i].n < WordBits) =>
                    LET off == SumWidths(SubSeq(x_in, 1, i - 1))
                    IN  SubSeq(HeldBits(x_w), off + 1, off + x_in[i].n) = FieldBits(x_in[i])
    /\ x_pc = "reading" =>
          /\ x_out.r.bits_left \in WordBits..AccBits
          /\ x_out.r.buf_pos <= Len(x_out.r.buf)

C40_Witness ==
    /\ x_pc = "reading"
    /\ Len(x_in) = MaxBitOps
    /\ Len(x_out.vals) = Len(x_in)
    /\ x_in[1].n < WordBits
    /\ SumWidths(x_in) > WordBits
    /\ x_w.bit_pos > 0
    /\ x_out.r.bits_left < AccBits

====
